---- MODULE Spec2Model ----
\* A model of houdini's document pipeline: the paginate transform, the list
\* transform (addListFragments), the selection compiler and the runtime scalar
\* walkers (marshalSelection / unmarshalSelection / marshalInputs).
EXTENDS Integers, Sequences, FiniteSets, TLC

\* ------------------------------------------------------------------------
\* Bounds
\* ------------------------------------------------------------------------
\* number of documents handed to the pipeline in one run
MaxDocs == 2
\* the largest time value of the Dates handed to the scalar walkers
MaxTime == 1

\* ------------------------------------------------------------------------
\* JavaScript values that appear in the transforms
\* ------------------------------------------------------------------------
Undefined == [k |-> "undefined", n |-> 0, s |-> ""]
Num(n) == [k |-> "number", n |-> n, s |-> ""]
Str(s) == [k |-> "string", n |-> 0, s |-> s]
\* JavaScript truthiness of a number, a string or undefined
Truthy(v) == \/ (v.k = "number" /\ v.n # 0)
             \/ (v.k = "string" /\ v.s # "")

\* the integer literals the documents use, and parseInt / toString on them
IntLiterals == {"0", "10"}
parseInt(str) == IF str = "10" THEN Num(10) ELSE Num(0)
toString(v) == IF v.k = "string" THEN v.s ELSE IF v.n = 10 THEN "10" ELSE "0"

\* ------------------------------------------------------------------------
\* AST helpers
\* ------------------------------------------------------------------------
\* Array.prototype.map, filter, reduce and flatMap
SeqMap(Op(_), s) == [i \in DOMAIN s |-> Op(s[i])]

SeqFilter(Test(_), s) == SelectSeq(s, Test)

Fold(Op(_, _), init, s) ==
    LET f[i \in 0..Len(s)] == IF i = 0 THEN init ELSE Op(f[i - 1], s[i])
    IN  f[Len(s)]

FlatMap(Op(_), s) == Fold(LAMBDA acc, x : acc \o Op(x), <<>>, s)

\* a loop over the indices 1..n
FoldIndex(Op(_, _), init, n) ==
    LET f[i \in 0..n] == IF i = 0 THEN init ELSE Op(f[i - 1], i)
    IN  f[n]

Range(s) == {s[i] : i \in DOMAIN s}
NamesOf(s) == {s[i].name : i \in DOMAIN s}
\* Array.prototype.find: the index of the first element that passes, 0 if none
FindIndex(Test(_), s) ==
    IF \E i \in DOMAIN s : Test(s[i])
    THEN CHOOSE i \in DOMAIN s : Test(s[i]) /\ \A j \in 1..(i - 1) : ~Test(s[j])
    ELSE 0

\* the schema's view of a field that is not looked up by any transform
NoDef == [args |-> {}, type |-> "", typeKind |-> "scalar", edges |-> "none",
          edgeHasNode |-> FALSE, nodeType |-> "", nodeTypeKind |-> "scalar"]

\* a Field node; hasSel says whether the node has a selectionSet at all
FieldNode(name, arguments, directives, hasSel, selections, def) ==
    [kind |-> "Field", name |-> name, arguments |-> arguments,
     directives |-> directives, hasSel |-> hasSel, selections |-> selections,
     def |-> def]
Leaf(name) == FieldNode(name, <<>>, <<>>, FALSE, <<>>, NoDef)
Branch(name, selections) == FieldNode(name, <<>>, <<>>, TRUE, selections, NoDef)

\* ------------------------------------------------------------------------
\* configuration (Config): directive names, schema root, per-type settings
\* ------------------------------------------------------------------------
paginateDirective == "paginate"
listDirective == "list"
argumentsDirective == "arguments"
withDirective == "with"
QueryTypeName == "Query"
paginationQueryName(fragmentName) == fragmentName \o "_Pagination_Query"
\* the object and interface types that implement the schema's Node interface
NodeImplementations == {"User"}
\* typeConfig: Ghost is configured with its own keys and resolver field
keyFieldsForType(type) == IF type = "Ghost" THEN <<"name", "aka">> ELSE <<"id">>
queryFieldForType(type) == IF type = "Ghost" THEN "ghost" ELSE "node"
\* the schema type of a key field, as wrapType prints it
keyFieldType(type, key) == IF key = "id" THEN "ID!" ELSE "String!"

\* ------------------------------------------------------------------------
\* paginate transform
\* ------------------------------------------------------------------------
\* Object.keys(flags), in declaration order
FlagNames == <<"first", "after", "last", "before", "limit", "offset">>
FlagSet == Range(FlagNames)
FlagType(name) == IF name \in {"after", "before"} THEN "String" ELSE "Int"

\* the flags object a document starts with
InitialFlags ==
    [name \in FlagSet |->
        [enabled |-> FALSE, type |-> FlagType(name), defaultValue |-> Undefined]]

variableAsArgument(name) == [name |-> name, kind |-> "Variable", value |-> name]

forwardPagination(args, passedArgs) ==
    "last" \notin passedArgs /\ "first" \in args /\ "after" \in args

\* the forward test copied without swapping the argument it looks for
backwardsPagination_m(args, passedArgs) ==
    "last" \notin passedArgs /\ "last" \in args /\ "before" \in args

backwardsPagination(args, passedArgs) ==
    "first" \notin passedArgs /\ "last" \in args /\ "before" \in args

offsetPagination(args, passedArgs) ==
    /\ ~forwardPagination(args, passedArgs)
    /\ ~backwardsPagination(args, passedArgs)
    /\ "offset" \in args
    /\ "limit" \in args

\* flags.<name>.enabled after the Field visitor has looked at the tagged field
EnableFlags(flags, args, passedArgs) ==
    [name \in FlagSet |->
        [flags[name] EXCEPT !.enabled =
            IF name \in {"first", "after"} THEN forwardPagination(args, passedArgs)
            ELSE IF name \in {"last", "before"} THEN backwardsPagination(args, passedArgs)
            ELSE offsetPagination(args, passedArgs)]]

\* the .map() without the assignment of the default value
ReplaceArgument_m(st, arg) ==
    LET enabled == arg.name \in FlagSet /\ st.flags[arg.name].enabled
    IN  [newArgs |-> Append(st.newArgs,
                        IF enabled THEN variableAsArgument(arg.name) ELSE arg),
         flags |-> st.flags,
         seenArgs |-> IF enabled THEN st.seenArgs \cup {arg.name} ELSE st.seenArgs]

\* the .map() of replaceArgumentsWithVariables: rewrites the call-site
\* arguments one by one and records literal values as defaults
ReplaceArgument(st, arg) ==
    LET enabled == arg.name \in FlagSet /\ st.flags[arg.name].enabled
    IN  [newArgs |-> Append(st.newArgs,
                        IF enabled THEN variableAsArgument(arg.name) ELSE arg),
         flags |-> IF enabled /\ arg.kind # "Variable"
                   THEN [st.flags EXCEPT ![arg.name].defaultValue =
                            IF FlagType(arg.name) = "Int" THEN parseInt(arg.value)
                            ELSE Str(arg.value)]
                   ELSE st.flags,
         seenArgs |-> IF enabled THEN st.seenArgs \cup {arg.name} ELSE st.seenArgs]

\* the trailing loop of replaceArgumentsWithVariables: does the enabled flag
\* `name` get a variable reference injected?
Injected(name, flags, seenArgs) ==
    /\ ~Truthy(flags[name].defaultValue)
    /\ flags[name].enabled
    /\ name \notin seenArgs
    /\ ~(name \in {"first", "after"} /\ flags["before"].enabled)
    /\ ~(name \in {"last", "before"} /\ flags["first"].enabled)

InjectVariables(st) ==
    LET keep(name) == Injected(name, st.flags, st.seenArgs)
    IN  [arguments |-> st.newArgs \o SeqMap(variableAsArgument, SeqFilter(keep, FlagNames)),
         flags |-> st.flags]

replaceArgumentsWithVariables(args, flags) ==
    InjectVariables(Fold(ReplaceArgument,
                         [newArgs |-> <<>>, flags |-> flags, seenArgs |-> {}], args))

pageInfoSelection ==
    << Branch("edges", << Leaf("cursor"), Branch("node", << Leaf("__typename") >>) >>),
       Branch("pageInfo", << Leaf("hasPreviousPage"), Leaf("hasNextPage"),
                             Leaf("startCursor"), Leaf("endCursor") >>) >>

HasDirective(node, name) == \E i \in DOMAIN node.directives : node.directives[i].name = name

\* does the Field visitor of paginate act on this node?
IsPaginated(node) ==
    node.kind = "Field" /\ HasDirective(node, paginateDirective) /\ node.hasSel

\* the Field visitor of paginate on a tagged field: the node it returns
RewriteField(node, replaced) ==
    [node |-> [node EXCEPT
                 !.arguments = replaced.arguments,
                 !.selections = IF offsetPagination(node.def.args, NamesOf(node.arguments))
                                THEN node.selections
                                ELSE node.selections \o pageInfoSelection],
     flags |-> replaced.flags]

PaginateField(node, flags) ==
    RewriteField(node,
        replaceArgumentsWithVariables(node.arguments,
            EnableFlags(flags, node.def.args, NamesOf(node.arguments))))

\* --- second pass: hoisting onto the enclosing definition ------------------
NoDefault == [present |-> FALSE, kind |-> "", value |-> Undefined]

staticVariableDefinition(name, type, defaultValue) ==
    [kind |-> "VariableDefinition", name |-> name, type |-> type,
     defaultValue |-> IF ~Truthy(defaultValue) THEN NoDefault
                      ELSE [present |-> TRUE, kind |-> type \o "Value",
                            value |-> defaultValue]]

\* objectNode: the `{type, default}` literal of an arguments-directive entry
objectNode(type, defaultValue) ==
    << [name |-> "type", kind |-> "StringValue", value |-> type] >>
    \o (IF Truthy(defaultValue)
        THEN << [name |-> "default",
                 kind |-> IF defaultValue.k = "number" THEN "IntValue" ELSE "StringValue",
                 value |-> toString(defaultValue)] >>
        ELSE <<>>)

argumentNode(name, type, defaultValue) ==
    [name |-> name, kind |-> "ObjectValue", fields |-> objectNode(type, defaultValue)]

\* the names of the enabled flags, in Object.entries order
EnabledFlags(flags) == LET on(name) == flags[name].enabled IN SeqFilter(on, FlagNames)

\* the OperationDefinition visitor: existing definitions win on a name collision
Dedupe(names) ==
    Fold(LAMBDA acc, n : IF n \in Range(acc) THEN acc ELSE Append(acc, n), <<>>, names)

\* the new definitions added without looking at the existing names
HoistVariables_m(variableDefinitions, flags) ==
    variableDefinitions
        \o SeqMap(LAMBDA name : staticVariableDefinition(name, flags[name].type,
                                                         flags[name].defaultValue),
                  EnabledFlags(flags))

HoistVariables(variableDefinitions, flags) ==
    LET names == SeqMap(LAMBDA d : d.name, variableDefinitions)
        \* a later definition of the same name overwrites an earlier one
        operationVariable(name) ==
            variableDefinitions[CHOOSE i \in DOMAIN variableDefinitions :
                /\ variableDefinitions[i].name = name
                /\ \A j \in DOMAIN variableDefinitions :
                      variableDefinitions[j].name = name => j <= i]
        missing(name) == name \notin Range(names)
        newVariable(name) ==
            staticVariableDefinition(name, flags[name].type, flags[name].defaultValue)
    IN  SeqMap(operationVariable, Dedupe(names))
        \o SeqMap(newVariable, SeqFilter(missing, EnabledFlags(flags)))

\* the Directive visitor: every arguments directive gains one entry per enabled flag
AddArguments(directives, flags) ==
    LET newArgs == SeqMap(LAMBDA name : argumentNode(name, flags[name].type,
                                                      flags[name].defaultValue),
                          EnabledFlags(flags))
        visit(directive) == IF directive.name # argumentsDirective THEN directive
                            ELSE [directive EXCEPT !.arguments = @ \o newArgs]
    IN  SeqMap(visit, directives)

\* the FragmentDefinition visitor: make sure there is an arguments directive
EnsureArguments(directives) ==
    IF \E i \in DOMAIN directives : directives[i].name = argumentsDirective
    THEN directives
    ELSE Append(directives, [name |-> argumentsDirective, arguments |-> <<>>])

NoRefetch ==
    [present |-> FALSE, update |-> "", path |-> <<>>, method |-> "",
     pageSize |-> Undefined, start |-> Undefined, embedded |-> FALSE, targetType |-> ""]

refetchUpdate(flags) == IF flags["last"].enabled THEN "prepend" ELSE "append"

targetType(fragment) ==
    IF fragment = "" THEN QueryTypeName
    ELSE IF fragment \in NodeImplementations THEN "Node" ELSE fragment

Refetch(flags, path, fragment) ==
    LET pick == IF flags["first"].enabled THEN <<"first", "after">>
                ELSE IF flags["last"].enabled THEN <<"last", "before">>
                ELSE IF flags["limit"].enabled THEN <<"limit", "offset">>
                ELSE <<>>
    IN  [present |-> TRUE,
         update |-> refetchUpdate(flags),
         path |-> path,
         method |-> IF flags["first"].enabled \/ flags["last"].enabled
                    THEN "cursor" ELSE "offset",
         pageSize |-> IF pick = <<>> THEN Num(0) ELSE flags[pick[1]].defaultValue,
         start |-> IF pick = <<>> THEN Undefined ELSE flags[pick[2]].defaultValue,
         embedded |-> fragment # "" /\ fragment # QueryTypeName,
         targetType |-> targetType(fragment)]

\* --- the synthesized refetch query ----------------------------------------
fragmentSpreadSelection(fragmentName, flags) ==
    << [kind |-> "FragmentSpread", name |-> fragmentName,
        directives |-> << [name |-> withDirective,
                           arguments |-> SeqMap(variableAsArgument, EnabledFlags(flags))] >>] >>

\* the keys of the type, on the Query type as well
RefetchKeys_m(fragment) == keyFieldsForType(fragment)

\* one entry per configured key of the fragment's type, none on the Query type
RefetchKeys(fragment) ==
    IF fragment = QueryTypeName THEN <<>> ELSE keyFieldsForType(fragment)

RefetchVariables(fragment, flags) ==
    SeqMap(LAMBDA name : staticVariableDefinition(name, flags[name].type,
                                                  flags[name].defaultValue),
           EnabledFlags(flags))
    \o SeqMap(LAMBDA key : [kind |-> "VariableDefinition", name |-> key,
                            type |-> keyFieldType(fragment, key),
                            defaultValue |-> NoDefault],
              RefetchKeys(fragment))

RefetchSelections(fragment, fragmentName, flags) ==
    IF fragment = QueryTypeName THEN fragmentSpreadSelection(fragmentName, flags)
    ELSE << FieldNode(queryFieldForType(fragment),
                      SeqMap(variableAsArgument, RefetchKeys(fragment)), <<>>, TRUE,
                      fragmentSpreadSelection(fragmentName, flags), NoDef) >>

Definition(kind, operation, name, typeCondition, variableDefinitions, directives, selections) ==
    [kind |-> kind, operation |-> operation, name |-> name,
     typeCondition |-> typeCondition, variableDefinitions |-> variableDefinitions,
     directives |-> directives, selections |-> selections]

RefetchDocument(doc, fragment, fragmentName, flags, refetch) ==
    [kind |-> "HoudiniQuery",
     filename |-> doc.filename,
     name |-> paginationQueryName(fragmentName),
     document |-> << Definition("OperationDefinition", "query",
                                paginationQueryName(fragmentName), "",
                                RefetchVariables(fragment, flags), <<>>,
                                RefetchSelections(fragment, fragmentName, flags)) >>,
     generate |-> TRUE,
     refetch |-> refetch]

\* --- one document ---------------------------------------------------------
\* the first visit: the Field visitor over the selections of the definition.
\* The tagged fields of the modelled documents are top-level selections;
\* nested selections carry no directive and are left as they are.
FieldVisited(st, node, visited) ==
    [out |-> Append(st.out, visited.node),
     flags |-> visited.flags,
     paginated |-> TRUE,
     path |-> <<node.name>>]

VisitPaginatedField(st, node) ==
    IF IsPaginated(node) THEN FieldVisited(st, node, PaginateField(node, st.flags))
    ELSE [st EXCEPT !.out = Append(@, node)]

VisitPaginatedFields(selections) ==
    Fold(VisitPaginatedField,
         [out |-> <<>>, flags |-> InitialFlags, paginated |-> FALSE, path |-> <<>>],
         selections)

\* the type condition of a fragment definition, "" for an operation
FragmentOf(def) == IF def.kind = "FragmentDefinition" THEN def.typeCondition ELSE ""

\* a check that looks for mutations only
NotAQuery_m(def) == def.kind = "OperationDefinition" /\ def.operation = "mutation"

\* the OperationDefinition visitor throws on anything but a query
NotAQuery(def) == def.kind = "OperationDefinition" /\ def.operation # "query"

\* the second visit: OperationDefinition, FragmentDefinition and Directive
HoistDefinition(def, flags) ==
    IF def.kind = "OperationDefinition"
    THEN [def EXCEPT !.variableDefinitions = HoistVariables(@, flags),
                     !.directives = AddArguments(@, flags)]
    ELSE [def EXCEPT !.directives = AddArguments(EnsureArguments(@), flags)]

\* the refetch query pushed without the descriptor
RecordRefetch_m(doc, def, fragment, flags, refetch) ==
    [doc |-> [doc EXCEPT !.document = <<def>>, !.refetch = refetch],
     newDocs |-> IF fragment = "" THEN <<>>
                 ELSE << RefetchDocument(doc, fragment, def.name, flags, NoRefetch) >>,
     flags |-> flags,
     threw |-> FALSE]

RecordRefetch(doc, def, fragment, flags, refetch) ==
    [doc |-> [doc EXCEPT !.document = <<def>>, !.refetch = refetch],
     newDocs |-> IF fragment = "" THEN <<>>
                 ELSE << RefetchDocument(doc, fragment, def.name, flags, refetch) >>,
     flags |-> flags,
     threw |-> FALSE]

SecondPass(doc, def, pass1) ==
    IF ~pass1.paginated \/ NotAQuery(def)
    THEN [doc |-> [doc EXCEPT !.document = << [def EXCEPT !.selections = pass1.out] >>],
          newDocs |-> <<>>,
          flags |-> pass1.flags,
          threw |-> pass1.paginated]
    ELSE RecordRefetch(doc,
                       HoistDefinition([def EXCEPT !.selections = pass1.out], pass1.flags),
                       FragmentOf(def), pass1.flags,
                       Refetch(pass1.flags, pass1.path, FragmentOf(def)))

\* the body of the `for (const doc of documents)` loop. Every input document
\* holds one definition.
PaginateDoc(doc) ==
    SecondPass(doc, doc.document[1], VisitPaginatedFields(doc.document[1].selections))

\* a loop that stores the rewritten document of the first document only
DocPaginated_m(st, i, r) ==
    [documents |-> IF i = 1 THEN [st.documents EXCEPT ![i] = r.doc] ELSE st.documents,
     newDocs |-> st.newDocs \o r.newDocs,
     flags |-> Append(st.flags, r.flags),
     threw |-> r.threw]

DocPaginated(st, i, r) ==
    [documents |-> [st.documents EXCEPT ![i] = r.doc],
     newDocs |-> st.newDocs \o r.newDocs,
     flags |-> Append(st.flags, r.flags),
     threw |-> r.threw]

PaginateStep(st, i) ==
    IF st.threw THEN st ELSE DocPaginated(st, i, PaginateDoc(st.documents[i]))

\* the new documents put in front of the collected ones
PushNewDocs_m(st) ==
    [documents |-> IF st.threw THEN st.documents ELSE st.newDocs \o st.documents,
     flags |-> st.flags,
     threw |-> st.threw]

\* documents.push(...newDocs), which a throw never reaches
PushNewDocs(st) ==
    [documents |-> IF st.threw THEN st.documents ELSE st.documents \o st.newDocs,
     flags |-> st.flags,
     threw |-> st.threw]

\* the new documents pushed as they are made, whether the loop ends or throws
PushAnyway_m(st) ==
    [documents |-> st.documents \o st.newDocs, flags |-> st.flags, threw |-> st.threw]
paginate_m(docs) ==
    PushAnyway_m(FoldIndex(PaginateStep,
                         [documents |-> docs, newDocs |-> <<>>, flags |-> <<>>,
                          threw |-> FALSE],
                         Len(docs)))

\* paginate(config, documents): the documents as the call leaves them, the
\* flags object of every document the loop got to, and whether the call threw
paginate(docs) ==
    PushNewDocs(FoldIndex(PaginateStep,
                          [documents |-> docs, newDocs |-> <<>>, flags |-> <<>>,
                           threw |-> FALSE],
                          Len(docs)))

\* ------------------------------------------------------------------------
\* list transform (addListFragments)
\* ------------------------------------------------------------------------
IsFieldNamed(name, node) == node.kind = "Field" /\ node.name = name

\* connectionSelection(config, field, type, selection). `threw` models the
\* TypeError of reading a property of undefined.
NotAConnection(def, hasSel, selections, threw) ==
    [hasSel |-> hasSel, selection |-> selections, type |-> def.type,
     typeKind |-> def.typeKind, connection |-> FALSE, threw |-> threw]

\* from the lookup of the edges type on: nodeSelection is the selected `node`
EdgeType(def, selections, nodeSelection) ==
    IF ~nodeSelection.hasSel THEN NotAConnection(def, TRUE, selections, FALSE)
    ELSE IF def.edges = "none" THEN NotAConnection(def, TRUE, selections, TRUE)
    ELSE IF def.edges # "list" THEN NotAConnection(def, TRUE, selections, FALSE)
    ELSE IF ~def.edgeHasNode THEN NotAConnection(def, TRUE, selections, FALSE)
    ELSE [hasSel |-> TRUE, selection |-> nodeSelection.selections,
          type |-> def.nodeType, typeKind |-> def.nodeTypeKind,
          connection |-> TRUE, threw |-> FALSE]

\* nodeIdx: where edgesField.selectionSet?.selections.find(...) found `node`
NodeOfEdges(def, selections, edgesField, nodeIdx) ==
    IF nodeIdx = 0 THEN NotAConnection(def, TRUE, selections, TRUE)
    ELSE EdgeType(def, selections, edgesField.selections[nodeIdx])

\* edgesIdx: where selection.selections.find(...) found `edges`
EdgesOfField(def, selections, edgesIdx) ==
    IF edgesIdx = 0 THEN NotAConnection(def, TRUE, selections, FALSE)
    ELSE NodeOfEdges(def, selections, selections[edgesIdx],
            IF selections[edgesIdx].hasSel
            THEN FindIndex(LAMBDA n : IsFieldNamed("node", n), selections[edgesIdx].selections)
            ELSE 0)

connectionSelection(def, hasSel, selections) ==
    IF ~("first" \in def.args /\ "after" \in def.args)
       /\ ~("last" \in def.args /\ "before" \in def.args)
    THEN NotAConnection(def, hasSel, selections, FALSE)
    ELSE IF ~hasSel THEN NotAConnection(def, hasSel, selections, FALSE)
    ELSE EdgesOfField(def, selections,
                      FindIndex(LAMBDA n : IsFieldNamed("edges", n), selections))

ArgNamed(name, arguments) == FindIndex(LAMBDA a : a.name = name, arguments)

ListIndex(lists, name) == FindIndex(LAMBDA l : l.name = name, lists)

\* lists[name] = {...}: a new key goes last, an existing key keeps its place
PutList(lists, entry, index) ==
    IF index = 0 THEN Append(lists, entry) ELSE [lists EXCEPT ![index] = entry]

SetList(lists, entry) == PutList(lists, entry, ListIndex(lists, entry.name))

connectionArgument == [name |-> "connection", kind |-> "BooleanValue", value |-> "true"]

ListError(message, directive, filename, docIndex) ==
    [message |-> message, directive |-> directive, filepath |-> filename,
     document |-> docIndex]

\* `if (lists[nameArg.value.value])`: the error of a name seen before
UniqueName(errors, lists, name, directive, filename, docIndex) ==
    IF ListIndex(lists, name) # 0
    THEN Append(errors, ListError("name must be unique", directive.name, filename, docIndex))
    ELSE errors

\* the Directive visitor from the lookup of the parent type on; cs is what
\* connectionSelection returned for the tagged field
RegisterList(directive, name, filename, docIndex, st, cs) ==
    IF cs.threw
    THEN [directive |-> directive, st |-> [st EXCEPT !.crashed = TRUE]]
    ELSE [directive |-> IF cs.connection
                        THEN [directive EXCEPT !.arguments = Append(@, connectionArgument)]
                        ELSE directive,
          st |-> [st EXCEPT
                    !.errors = UniqueName(@, st.lists, name, directive, filename, docIndex),
                    !.lists = SetList(@, [name |-> name, hasSel |-> cs.hasSel,
                                          selection |-> cs.selection, type |-> cs.type,
                                          typeKind |-> cs.typeKind,
                                          filename |-> filename])]]

\* the checks of the name argument; nameIdx is where the argument was found
CheckName(directive, field, filename, docIndex, st, nameIdx) ==
    IF nameIdx = 0
    THEN [directive |-> directive,
          st |-> IF directive.name = listDirective
                 THEN [st EXCEPT !.errors = Append(@,
                         ListError("must have a name argument", directive.name,
                                   filename, docIndex))]
                 ELSE st]
    ELSE IF directive.arguments[nameIdx].kind # "StringValue"
    THEN [directive |-> directive,
          st |-> [st EXCEPT !.errors = Append(@,
                    ListError("name must be a string", directive.name,
                              filename, docIndex))]]
    ELSE RegisterList(directive, directive.arguments[nameIdx].value, filename, docIndex, st,
                      connectionSelection(field.def, field.hasSel, field.selections))

\* the Directive visitor on one directive of the field `field` (the last
\* ancestor). st holds the registry, the errors and the crash flag.
VisitListDirective(directive, field, filename, docIndex, st) ==
    IF directive.name \notin {listDirective, paginateDirective}
    THEN [directive |-> directive, st |-> st]
    ELSE CheckName(directive, field, filename, docIndex, st,
                   ArgNamed("name", directive.arguments))

DirectiveVisited(acc, i, r) ==
    [directives |-> [acc.directives EXCEPT ![i] = r.directive], st |-> r.st]

VisitListDirectives(directives, field, filename, docIndex, st) ==
    LET step(acc, i) ==
            IF acc.st.crashed THEN acc
            ELSE DirectiveVisited(acc, i,
                    VisitListDirective(acc.directives[i], field, filename, docIndex, acc.st))
    IN  FoldIndex(step, [directives |-> directives, st |-> st], Len(directives))

WithDirectives(node, r) ==
    [node |-> [node EXCEPT !.directives = r.directives], st |-> r.st]

\* the Directive visitor on the directives of the node the Field visitor left
VisitDirectivesOf(node, filename, docIndex, st) ==
    WithDirectives(node, VisitListDirectives(node.directives, node, filename, docIndex, st))

\* the Field visitor on a field tagged with the list directive
ListField(node, filename, docIndex, st, cs) ==
    IF cs.threw THEN [node |-> node, st |-> [st EXCEPT !.crashed = TRUE]]
    ELSE VisitDirectivesOf(IF cs.connection
                           THEN [node EXCEPT !.selections = @ \o pageInfoSelection]
                           ELSE node,
                           filename, docIndex, st)

VisitListField(node, filename, docIndex, st) ==
    IF node.kind = "Field" /\ HasDirective(node, listDirective)
    THEN ListField(node, filename, docIndex, st,
                   connectionSelection(node.def, node.hasSel, node.selections))
    ELSE VisitDirectivesOf(node, filename, docIndex, st)

SelectionVisited(acc, i, r) ==
    [selections |-> [acc.selections EXCEPT ![i] = r.node], st |-> r.st]

VisitListSelections(selections, filename, docIndex, st) ==
    LET step(acc, i) ==
            IF acc.st.crashed THEN acc
            ELSE SelectionVisited(acc, i,
                    VisitListField(acc.selections[i], filename, docIndex, acc.st))
    IN  FoldIndex(step, [selections |-> selections, st |-> st], Len(selections))

DefinitionVisited(acc, i, r) ==
    [definitions |-> [acc.definitions EXCEPT ![i] = [@ EXCEPT !.selections = r.selections]],
     st |-> r.st]

VisitListDefinitions(definitions, filename, docIndex, st) ==
    LET step(acc, i) ==
            IF acc.st.crashed THEN acc
            ELSE DefinitionVisited(acc, i,
                    VisitListSelections(acc.definitions[i].selections, filename,
                                        docIndex, acc.st))
    IN  FoldIndex(step, [definitions |-> definitions, st |-> st], Len(definitions))

\* a visit that throws never assigns doc.document
DocumentVisited(acc, i, r) ==
    IF r.st.crashed THEN [acc EXCEPT !.st = r.st]
    ELSE [documents |-> [acc.documents EXCEPT ![i] = [@ EXCEPT !.document = r.definitions]],
          st |-> r.st]

\* the `for (const doc of documents)` loop of addListFragments
WalkLists(docs) ==
    LET step(acc, i) ==
            IF acc.st.crashed THEN acc
            ELSE DocumentVisited(acc, i,
                    VisitListDefinitions(acc.documents[i].document,
                                         acc.documents[i].filename, i, acc.st))
    IN  FoldIndex(step,
                  [documents |-> docs,
                   st |-> [lists |-> <<>>, errors |-> <<>>, crashed |-> FALSE]],
                  Len(docs))

listInsertFragment(name) == name \o "_insert"
listToggleFragment(name) == name \o "_toggle"
listRemoveFragment(name) == name \o "_remove"
listDeleteDirective(type) == type \o "_delete"

\* the names of the types that are the target of a list, of any kind
listTargets_m(lists) == Dedupe(SeqMap(LAMBDA l : l.type, lists))

\* the names of the object types that are the target of a list, each once
listTargets(lists) ==
    LET isObject(l) == l.typeKind = "object"
    IN  Dedupe(SeqMap(LAMBDA l : l.type, SeqFilter(isObject, lists)))

HasIdField(selections) == \E i \in DOMAIN selections : IsFieldNamed("id", selections[i])

fragmentSelection_m(selections) == Append(selections, Leaf("id"))

\* the selection of the insert fragment: the registered selection and an id
fragmentSelection(selections) ==
    IF HasIdField(selections) THEN selections ELSE Append(selections, Leaf("id"))

ListFragments(l) ==
    << Definition("FragmentDefinition", "", listInsertFragment(l.name), l.type, <<>>, <<>>,
                  fragmentSelection(l.selection)),
       Definition("FragmentDefinition", "", listToggleFragment(l.name), l.type, <<>>, <<>>,
                  Append(fragmentSelection(l.selection), Leaf("id"))),
       Definition("FragmentDefinition", "", listRemoveFragment(l.name), l.type, <<>>, <<>>,
                  << Leaf("id") >>) >>

DeleteDirective(typeName) ==
    [kind |-> "DirectiveDefinition", operation |-> "", name |-> listDeleteDirective(typeName),
     typeCondition |-> "", variableDefinitions |-> <<>>, directives |-> <<>>,
     selections |-> <<>>, locations |-> <<"FIELD">>, repeatable |-> TRUE]

generatedDoc(lists) ==
    FlatMap(ListFragments, lists) \o SeqMap(DeleteDirective, listTargets(lists))

\* config.newSchema += ...; documents.push({...})
PushGenerated(result, definitions) ==
    [result EXCEPT
       !.documents = Append(@, [kind |-> "HoudiniFragment", filename |-> "generated::lists",
                                name |-> "generated::lists", document |-> definitions,
                                generate |-> FALSE, refetch |-> NoRefetch]),
       !.newSchema = @ \o definitions]

\* the fragments generated before the errors are looked at
AfterWalk_m(schema, walk) ==
    IF walk.st.crashed
    THEN [documents |-> walk.documents, newSchema |-> schema, lists |-> walk.st.lists,
          errors |-> walk.st.errors, outcome |-> "TypeError"]
    ELSE IF walk.st.lists = <<>>
    THEN [documents |-> walk.documents, newSchema |-> schema, lists |-> walk.st.lists,
          errors |-> walk.st.errors,
          outcome |-> IF walk.st.errors # <<>> THEN "errors" ELSE "ok"]
    ELSE PushGenerated([documents |-> walk.documents, newSchema |-> schema,
                        lists |-> walk.st.lists, errors |-> walk.st.errors,
                        outcome |-> IF walk.st.errors # <<>> THEN "errors" ELSE "ok"],
                       generatedDoc(walk.st.lists))

\* what addListFragments does once the walk is over
AfterWalk(schema, walk) ==
    IF walk.st.crashed
    THEN [documents |-> walk.documents, newSchema |-> schema, lists |-> walk.st.lists,
          errors |-> walk.st.errors, outcome |-> "TypeError"]
    ELSE IF walk.st.errors # <<>>
    THEN [documents |-> walk.documents, newSchema |-> schema, lists |-> walk.st.lists,
          errors |-> walk.st.errors, outcome |-> "errors"]
    ELSE IF walk.st.lists = <<>>
    THEN [documents |-> walk.documents, newSchema |-> schema, lists |-> walk.st.lists,
          errors |-> walk.st.errors, outcome |-> "ok"]
    ELSE IF \E i \in DOMAIN walk.st.lists : ~walk.st.lists[i].hasSel
    THEN [documents |-> walk.documents, newSchema |-> schema, lists |-> walk.st.lists,
          errors |-> walk.st.errors, outcome |-> "Error"]
    ELSE PushGenerated([documents |-> walk.documents, newSchema |-> schema,
                        lists |-> walk.st.lists, errors |-> walk.st.errors,
                        outcome |-> "ok"],
                       generatedDoc(walk.st.lists))

\* addListFragments(config, documents): how the call ends ("ok", "errors" for
\* `throw errors`, "TypeError" for a property read of undefined, "Error" for a
\* list without a selection), and the documents, the schema text, the
\* registry and the errors as it leaves them
addListFragments(docs, schema) == AfterWalk(schema, WalkLists(docs))

\* ------------------------------------------------------------------------
\* runtime/scalars.ts: the values the walkers are given and return
\* ------------------------------------------------------------------------
\* a JavaScript value: null, undefined, a number, a string, a Date (n is its
\* time value; s marks an invalid Date or a NaN), an array or a plain object
\* (its entries in the order of Object.entries)
JsValue(k, n, s, items, entries) ==
    [k |-> k, n |-> n, s |-> s, items |-> items, entries |-> entries]
JsNull == JsValue("null", 0, "", <<>>, <<>>)
JsUndefined == JsValue("undefined", 0, "", <<>>, <<>>)
JsNumber(n) == JsValue("number", n, "", <<>>, <<>>)
JsNaN == JsValue("number", 0, "NaN", <<>>, <<>>)
JsString(s) == JsValue("string", 0, s, <<>>, <<>>)
JsDate(n) == JsValue("date", n, "", <<>>, <<>>)
InvalidDate == JsValue("date", 0, "Invalid Date", <<>>, <<>>)
JsArray(items) == JsValue("array", 0, "", items, <<>>)
JsObject(entries) == JsValue("object", 0, "", <<>>, entries)
Entry(name, value) == [name |-> name, value |-> value]

\* how a call ends: `threw` is "" when it returned `value`, else what it threw
Returned(value) == [threw |-> "", value |-> value]
Threw(error) == [threw |-> error, value |-> JsUndefined]

MissingMarshal == "scalar type is missing a marshal function"
MissingUnmarshal == "scalar type is missing an unmarshal function"

\* the conversion functions of a DateTime scalar whose in-memory form is a
\* Date and whose wire form is its time value:
\*   marshal: (val) => val.getTime(),  unmarshal: (val) => new Date(val)
getTime == "getTime"
newDate == "newDate"

\* fn(value) for a configured conversion function
Call(fn, value) ==
    IF fn = getTime
    THEN IF value.k # "date" THEN Threw("TypeError")
         ELSE IF value.s # "" THEN Returned(JsNaN)
         ELSE Returned(JsNumber(value.n))
    ELSE IF value.k \in {"number", "date"} /\ value.s = "" THEN Returned(JsDate(value.n))
    ELSE IF value.k = "null" THEN Returned(JsDate(0))
    ELSE Returned(InvalidDate)

\* one more element of a map whose callback may throw
Collected(acc, r) ==
    IF r.threw # "" THEN [threw |-> r.threw, values |-> acc.values]
    ELSE [threw |-> "", values |-> Append(acc.values, r.value)]

\* array.map(Op): the mapped elements, or what the first failing call threw
MapThrowing(Op(_), s) ==
    Fold(LAMBDA acc, x : IF acc.threw # "" THEN acc ELSE Collected(acc, Op(x)),
         [threw |-> "", values |-> <<>>], s)

ArrayOf(m) == IF m.threw # "" THEN Threw(m.threw) ELSE Returned(JsArray(m.values))
\* Object.fromEntries(...)
ObjectOf(m) == IF m.threw # "" THEN Threw(m.threw) ELSE Returned(JsObject(m.values))
\* [fieldName, <result>]
EntryOf(fieldName, r) == IF r.threw # "" THEN r ELSE Returned(Entry(fieldName, r.value))

\* Object.entries(data): a number or a Date has no own enumerable property
EntriesOf(data) == IF data.k = "object" THEN data.entries ELSE <<>>

\* a Selection is a sequence of entries, one per response key
SelectionEntry(name, type, hasFields, fields) ==
    [name |-> name, type |-> type, hasFields |-> hasFields, fields |-> fields]
\* selection[fieldName]: the index of the entry, 0 for undefined
Lookup(entries, fieldName) == FindIndex(LAMBDA e : e.name = fieldName, entries)

\* config.scalars?.[type]
HasScalar(config, type) ==
    type \in DOMAIN config.scalars /\ config.scalars[type].configured
\* config.scalars?.[type]?.marshal, "" for undefined
MarshalFnOf(config, type) ==
    IF HasScalar(config, type) THEN config.scalars[type].marshal ELSE ""

\* value.map(fn) for an array, fn(value) otherwise
Convert(fieldName, fn, value) ==
    IF value.k = "array"
    THEN EntryOf(fieldName, ArrayOf(MapThrowing(LAMBDA v : Call(fn, v), value.items)))
    ELSE EntryOf(fieldName, Call(fn, value))

\* --- marshalSelection -----------------------------------------------------
RECURSIVE marshalSelection(_, _, _)

\* `if (config.scalars?.[type])` and what follows
MarshalScalar(config, type, entry) ==
    IF HasScalar(config, type)
    THEN IF config.scalars[type].marshal = ""
         THEN Threw(MissingMarshal)
         ELSE Convert(entry.name, config.scalars[type].marshal, entry.value)
    ELSE Returned(entry)

\* the callback of the map over the entries; idx is where selection holds the
\* field. Destructuring selection[fieldName] throws when there is no entry.
MarshalField(config, selection, entry, idx) ==
    IF idx = 0 THEN Threw("TypeError")
    ELSE IF selection[idx].type = "" THEN Returned(entry)
    ELSE IF selection[idx].hasFields
    THEN EntryOf(entry.name, marshalSelection(config, selection[idx].fields, entry.value))
    ELSE MarshalScalar(config, selection[idx].type, entry)

marshalSelection(config, selection, data) ==
    IF data.k \in {"null", "undefined"} THEN Returned(data)
    ELSE IF data.k = "array"
    THEN ArrayOf(MapThrowing(LAMBDA val : marshalSelection(config, selection, val),
                             data.items))
    ELSE ObjectOf(MapThrowing(
            LAMBDA e : MarshalField(config, selection, e, Lookup(selection, e.name)),
            EntriesOf(data)))

\* --- unmarshalSelection ---------------------------------------------------
RECURSIVE unmarshalSelection(_, _, _)

\* `if (config.scalars?.[type]?.marshal)` and what follows
UnmarshalScalar(config, type, entry) ==
    IF MarshalFnOf(config, type) # ""
    THEN IF config.scalars[type].unmarshal = ""
         THEN Threw(MissingUnmarshal)
         ELSE Convert(entry.name, config.scalars[type].unmarshal, entry.value)
    ELSE Returned(entry)

UnmarshalField(config, selection, entry, idx) ==
    IF idx = 0 THEN Threw("TypeError")
    ELSE IF selection[idx].type = "" THEN Returned(entry)
    ELSE IF selection[idx].hasFields
    THEN EntryOf(entry.name, unmarshalSelection(config, selection[idx].fields, entry.value))
    ELSE UnmarshalScalar(config, selection[idx].type, entry)

unmarshalSelection(config, selection, data) ==
    IF data.k \in {"null", "undefined"} THEN Returned(data)
    ELSE IF data.k = "array"
    THEN ArrayOf(MapThrowing(LAMBDA val : unmarshalSelection(config, selection, val),
                             data.items))
    ELSE ObjectOf(MapThrowing(
            LAMBDA e : UnmarshalField(config, selection, e, Lookup(selection, e.name)),
            EntriesOf(data)))

\* --- marshalInputs --------------------------------------------------------
RECURSIVE marshalInputs(_, _, _, _)

BuiltinScalars == {"String", "Boolean", "Float", "ID", "Int"}
isScalar(config, type) ==
    type \in BuiltinScalars \cup {t \in DOMAIN config.scalars : config.scalars[t].configured}

\* artifact.input.types[type]: the index of the named type, 0 for undefined
TypeIndex(types, type) == FindIndex(LAMBDA t : t.name = type, types)

\* rootType is @root ? artifact.input.fields : artifact.input.types[rootType]
FieldsOfType(types, idx) == IF idx = 0 THEN <<>> ELSE types[idx].fields
InputFields(artifact, rootType) ==
    IF rootType = "@root" THEN artifact.input.fields
    ELSE FieldsOfType(artifact.input.types, TypeIndex(artifact.input.types, rootType))

\* the entry of a field whose type is known
InputOfType(artifact, config, entry, type, marshalFn) ==
    IF marshalFn # "" THEN Convert(entry.name, marshalFn, entry.value)
    ELSE IF isScalar(config, type) \/ TypeIndex(artifact.input.types, type) = 0
    THEN Returned(entry)
    ELSE EntryOf(entry.name, marshalInputs(artifact, config, entry.value, type))

InputField(artifact, config, fields, entry, idx) ==
    IF idx = 0 THEN Returned(entry)
    ELSE IF fields[idx].type = "" THEN Returned(entry)
    ELSE InputOfType(artifact, config, entry, fields[idx].type,
                     MarshalFnOf(config, fields[idx].type))

InputEntries(artifact, config, fields, input) ==
    ObjectOf(MapThrowing(
        LAMBDA e : InputField(artifact, config, fields, e, Lookup(fields, e.name)),
        EntriesOf(input)))

marshalInputs(artifact, config, input, rootType) ==
    IF input.k \in {"null", "undefined"} THEN Returned(input)
    ELSE IF ~artifact.input.present THEN Returned(input)
    ELSE IF input.k = "array"
    THEN ArrayOf(MapThrowing(LAMBDA val : marshalInputs(artifact, config, val, rootType),
                             input.items))
    ELSE InputEntries(artifact, config, InputFields(artifact, rootType), input)

\* ------------------------------------------------------------------------
\* the selection compiler: the `masked` flag of a compiled selection
\* ------------------------------------------------------------------------
FragmentSpread(name) ==
    [kind |-> "FragmentSpread", name |-> name, arguments |-> <<>>, directives |-> <<>>,
     hasSel |-> FALSE, selections |-> <<>>, def |-> NoDef]

\* a compiled selection: the `masked` flag of the node at each path of
\* response keys; an object holds one node per key
EmptySelection == [path \in {} |-> FALSE]

\* masked of a node that merges two appearances of a response key
MergeMasked_m(a, b) == a \/ b
MergeMasked(a, b) == a /\ b

\* merge one appearance of the key at `path` into the tree
MergeNode(tree, path, masked) ==
    IF path \in DOMAIN tree
    THEN [tree EXCEPT ![path] = MergeMasked(@, masked)]
    ELSE (path :> masked) @@ tree

RECURSIVE compileSelection(_, _, _, _, _)

\* a field: its node, and below it the nodes of its selection set
SelectField(fragments, node, path, masked, tree) ==
    IF node.hasSel
    THEN compileSelection(fragments, node.selections, path, masked, MergeNode(tree, path, masked))
    ELSE MergeNode(tree, path, masked)

\* a fragment spread: the fragment's fields, merged in at this level as
\* fields that are not selected directly
SelectSpread(fragments, idx, path, tree) ==
    IF idx = 0 THEN tree
    ELSE compileSelection(fragments, fragments[idx].selections, path, TRUE, tree)

\* the nodes of one selection set, merged into `tree`
compileSelection(fragments, selections, path, masked, tree) ==
    Fold(LAMBDA acc, node :
            IF node.kind = "Field"
            THEN SelectField(fragments, node, Append(path, node.name), masked, acc)
            ELSE SelectSpread(fragments,
                              FindIndex(LAMBDA f : f.name = node.name, fragments),
                              path, acc),
         tree, selections)

\* ------------------------------------------------------------------------
\* artifact generator: mutation operations and list metadata of a field
\* ------------------------------------------------------------------------
prependDirective == "prepend"
appendDirective == "append"
parentIDDirective == "parentID"
whenDirective == "when"
whenNotDirective == "when_not"

Bool(b) == [k |-> "boolean", n |-> IF b THEN 1 ELSE 0, s |-> ""]

\* an argument of an operation directive; `fields` holds an object value
DirectiveArgument(name, kind, value, fields) ==
    [name |-> name, kind |-> kind, value |-> value, fields |-> fields]
StringArgument(name, value) == DirectiveArgument(name, "StringValue", value, <<>>)
\* { argument: "...", value: "..." }
GuardFields(argument, value) ==
    << StringArgument("argument", argument), StringArgument("value", value) >>
ObjectArgument(name, fields) == DirectiveArgument(name, "ObjectValue", "", fields)

OperationDirective(name, arguments) == [name |-> name, arguments |-> arguments]

\* a fragment spread of a mutation, with the directives applied to it
OperationSpread(name, directives) ==
    [kind |-> "FragmentSpread", name |-> name, directives |-> directives]

\* the arguments named `name` of the directives named in `names`, in order
ArgumentsNamed(directives, names, name) ==
    FlatMap(LAMBDA d : IF d.name \in names
                       THEN SelectSeq(d.arguments, LAMBDA a : a.name = name)
                       ELSE <<>>,
            directives)

\* position: first for a prepended insert, last otherwise
operationPosition_m(directives) ==
    IF ArgumentsNamed(directives, {prependDirective, appendDirective}, "parentID") # <<>>
    THEN "first" ELSE "last"

operationPosition(directives) ==
    IF \E k \in DOMAIN directives : directives[k].name = prependDirective
    THEN "first" ELSE "last"

\* the argument that names the parent: @parentID(value:), or the parentID
\* argument of @prepend or @append
ParentArguments(directives) ==
    ArgumentsNamed(directives, {parentIDDirective}, "value")
        \o ArgumentsNamed(directives, {prependDirective, appendDirective}, "parentID")

NoParentID == [kind |-> "", value |-> ""]
operationParentID(arguments) ==
    IF arguments = <<>> THEN NoParentID
    ELSE [kind |-> IF arguments[1].kind = "Variable" THEN "Variable" ELSE "String",
          value |-> arguments[1].value]

\* a guard as written: which of must / must_not, the argument and the value
GuardOf(which, fields) ==
    [which |-> which,
     argument |-> fields[FindIndex(LAMBDA a : a.name = "argument", fields)].value,
     value |-> fields[FindIndex(LAMBDA a : a.name = "value", fields)].value]

\* the guards of a spread: when / when_not arguments of @prepend and @append,
\* then the @when and @when_not directives
GuardsOfDirective(d) ==
    IF d.name \in {prependDirective, appendDirective}
    THEN FlatMap(LAMBDA a : IF a.name = "when" THEN << GuardOf("must", a.fields) >>
                            ELSE IF a.name = "when_not" THEN << GuardOf("must_not", a.fields) >>
                            ELSE <<>>,
                 d.arguments)
    ELSE IF d.name = whenDirective THEN << GuardOf("must", d.arguments) >>
    ELSE IF d.name = whenNotDirective THEN << GuardOf("must_not", d.arguments) >>
    ELSE <<>>

OperationGuards(directives) == FlatMap(GuardsOfDirective, directives)

\* the declared type of an argument of the field that holds the list
ListArgumentTypes ==
    [name \in {"stringValue", "boolValue", "intValue"} |->
        IF name = "stringValue" THEN "String"
        ELSE IF name = "boolValue" THEN "Boolean" ELSE "Int"]

\* the value of a guard without its conversion
guardValue_m(type, value) == Str(value)

\* the value of a guard, converted to the type of the argument it names
guardValue(type, value) ==
    IF type = "Boolean" THEN Bool(value = "true") ELSE Str(value)

NoGuard == [which |-> "", argument |-> "", value |-> Undefined]
operationWhen(guards) ==
    IF guards = <<>> THEN NoGuard
    ELSE [which |-> guards[1].which, argument |-> guards[1].argument,
          value |-> guardValue(ListArgumentTypes[guards[1].argument], guards[1].value)]

\* one entry of `operations`; has* say which optional keys are present
Operation(action, list, hasPosition, position, parents, guards) ==
    [action |-> action, list |-> list,
     hasPosition |-> hasPosition, position |-> position,
     hasParentID |-> parents # <<>>, parentID |-> operationParentID(parents),
     hasWhen |-> guards # <<>>, when |-> operationWhen(guards)]

\* the operations a fragment spread of a mutation stands for, `listNames`
\* being the registered lists
operationsOfList(list, spread) ==
    IF spread.name = listInsertFragment(list)
    THEN << Operation("insert", list, TRUE, operationPosition(spread.directives),
                      ParentArguments(spread.directives),
                      OperationGuards(spread.directives)) >>
    ELSE IF spread.name = listRemoveFragment(list)
    THEN << Operation("remove", list, FALSE, "",
                      ParentArguments(spread.directives),
                      OperationGuards(spread.directives)) >>
    ELSE <<>>

operationsOf(listNames, spread) ==
    FlatMap(LAMBDA list : operationsOfList(list, spread), listNames)

\* graphql.print of an argument value
printValue_m(arg) ==
    IF arg.kind = "Variable" THEN "$" \o arg.value
    ELSE arg.value

printValue(arg) ==
    IF arg.kind = "Variable" THEN "$" \o arg.value
    ELSE IF arg.kind = "StringValue" THEN "\"" \o arg.value \o "\""
    ELSE arg.value

RECURSIVE printArguments(_)
printArguments(arguments) ==
    IF arguments = <<>> THEN ""
    ELSE arguments[1].name \o ": " \o printValue(arguments[1])
            \o (IF Len(arguments) = 1 THEN "" ELSE ", " \o printArguments(Tail(arguments)))

\* keyRaw: the name of the field and its printed arguments
fieldKey(node) ==
    IF node.arguments = <<>> THEN node.name
    ELSE node.name \o "(" \o printArguments(node.arguments) \o ")"

\* one entry of `filters`: a variable by name, a literal by kind and value
filterOf(arg) ==
    [name |-> arg.name,
     kind |-> IF arg.kind = "Variable" THEN "Variable"
              ELSE IF arg.kind = "StringValue" THEN "String"
              ELSE IF arg.kind = "BooleanValue" THEN "Boolean"
              ELSE "Int",
     value |-> IF arg.kind \in {"Variable", "StringValue"} THEN Str(arg.value)
               ELSE IF arg.kind = "BooleanValue" THEN Bool(arg.value = "true")
               ELSE parseInt(arg.value)]

\* the list directive of a field, if it has one
ListDirectivesOf(node) == SelectSeq(node.directives, LAMBDA d : d.name = listDirective)

\* the compiled node of a field, as far as lists are concerned
listFieldNode(node) ==
    [keyRaw |-> fieldKey(node),
     hasList |-> ListDirectivesOf(node) # <<>>,
     list |-> IF ListDirectivesOf(node) = <<>> THEN "" ELSE ListDirectivesOf(node)[1].arguments[1].value,
     hasFilters |-> ListDirectivesOf(node) # <<>>,
     filters |-> IF ListDirectivesOf(node) = <<>> THEN <<>> ELSE SeqMap(filterOf, node.arguments)]

\* ------------------------------------------------------------------------
\* the load function generated for a route
\* ------------------------------------------------------------------------
\* one statement of the generated function
Statement(op, query, variant) == [op |-> op, query |-> query, variant |-> variant]

\* a query of the route and whether the route exports its variable function
RouteQuery(name, hasVariables) == [name |-> name, hasVariables |-> hasVariables]

\* await _houdini_context.invokeLoadHook({variant, hookFn})
HookStatements(variant, hookFn) ==
    IF hookFn = "" THEN <<>> ELSE << Statement("invokeLoadHook", hookFn, variant) >>

\* const _Q_Input = {} or computeInput(...) followed by the continue test,
\* then the call of the store's load
LoadStatements(q) ==
    (IF q.hasVariables
     THEN << Statement("input", q.name, "computeInput"), Statement("continue", q.name, "") >>
     ELSE << Statement("input", q.name, "empty") >>)
        \o << Statement("load", q.name, "") >>

\* const _Q = await ...; if (!_Q.result.data) {...}
AwaitStatements(q) == << Statement("await", q.name, ""), Statement("data", q.name, "") >>

\* the function with the after hook ahead of the awaits
loadFunction_m(beforeHook, afterHook, queries) ==
    HookStatements("before", beforeHook)
        \o FlatMap(LoadStatements, queries)
        \o HookStatements("after", afterHook)
        \o FlatMap(AwaitStatements, queries)
        \o << Statement("return", "", "") >>

\* the body of `export async function load(context)`, statement by statement
loadFunction(beforeHook, afterHook, queries) ==
    HookStatements("before", beforeHook)
        \o FlatMap(LoadStatements, queries)
        \o FlatMap(AwaitStatements, queries)
        \o HookStatements("after", afterHook)
        \o << Statement("return", "", "") >>

\* what a run of the function did, in order
LoadEvent(event, query, variant, hasData) ==
    [event |-> event, query |-> query, variant |-> variant, hasData |-> hasData]

\* ------------------------------------------------------------------------
\* the pipeline as a state machine
\* ------------------------------------------------------------------------
VARIABLES
    documents,        \* the document list the transforms mutate
    inputDocuments,   \* the documents as they were collected
    pc,               \* "collected", "paginated", "listed" or "failed"
    docFlags,         \* paginate's flags object of each document it visited
    thrown,           \* what the failing stage threw: "" for nothing, the message
                      \* of an Error, "TypeError", or "errors" for the error list
    errors,           \* the error list of addListFragments
    lists,            \* the list registry of addListFragments
    newSchema,        \* config.newSchema, as a sequence of definitions
    config,           \* the scalar walkers' ConfigFile: its custom scalars
    selection,        \* the Selection the walkers are given
    artifact,         \* the artifact marshalInputs is given: its input descriptor
    data,             \* the value the first call is given
    output,           \* how the last call ended and what it returned
    scalarsPc,        \* "start", then the name of the call(s) made
    queryDocument,    \* the selection set of the query handed to the compiler
    fragmentDefinitions, \* the fragments the query can spread
    generated,        \* the artifact the compiler generated: its name and selection
    mutationSpread,   \* the fragment spread of the mutation document
    listField,        \* the field of the query document that may hold a list
    compiled,         \* what the generator made of the two
    route,            \* the hooks and the queries of the route
    loadProgram,      \* the statements of the generated load function
    loadPc,           \* the statement load is at
    loadContinue,     \* _houdini_context.continue
    loadLog           \* the calls load has made so far

pipelineVars == <<documents, inputDocuments, pc, docFlags, thrown, errors, lists, newSchema>>
scalarVars == <<config, selection, artifact, data, output, scalarsPc>>
compilerVars == <<queryDocument, fragmentDefinitions, generated,
                  mutationSpread, listField, compiled>>
loadVars == <<route, loadProgram, loadPc, loadContinue, loadLog>>
vars == <<pipelineVars, scalarVars, compilerVars, loadVars>>

\* --- the documents the pipeline is run on ---------------------------------
\* the schema definition of a field that declares the arguments `args`
ConnectionDef(args) ==
    [args |-> args, type |-> "UserConnection", typeKind |-> "object", edges |-> "list",
     edgeHasNode |-> TRUE, nodeType |-> "User", nodeTypeKind |-> "object"]
PlainDef(args) ==
    [args |-> args, type |-> "User", typeKind |-> "object", edges |-> "none",
     edgeHasNode |-> FALSE, nodeType |-> "", nodeTypeKind |-> "scalar"]

Document(kind, operation, name, typeCondition, variableDefinitions, directives, selections) ==
    [kind |-> IF kind = "FragmentDefinition" THEN "HoudiniFragment"
              ELSE IF operation = "query" THEN "HoudiniQuery"
              ELSE IF operation = "mutation" THEN "HoudiniMutation"
              ELSE "HoudiniSubscription",
     filename |-> name \o ".graphql", name |-> name,
     document |-> << Definition(kind, operation, name, typeCondition,
                                variableDefinitions, directives, selections) >>,
     generate |-> TRUE, refetch |-> NoRefetch]

\* a directive with an optional name argument: "-" stands for no argument,
\* "$" for a name passed as a variable, anything else for a string literal
Tag(directive, name) ==
    [name |-> directive,
     arguments |-> IF name = "-" THEN <<>>
                   ELSE IF name = "$" THEN << [name |-> "name", kind |-> "Variable", value |-> "x"] >>
                   ELSE << [name |-> "name", kind |-> "StringValue", value |-> name] >>]

\* the call-site arguments: every member of `passed`, in schema order, with
\* the value literalOf gives it ("$" again stands for a variable)
CallSite(passed, literalOf) ==
    LET isPassed(name) == name \in passed
        argument(name) ==
            IF literalOf[name] = "$" THEN variableAsArgument(name)
            ELSE [name |-> name, kind |-> FlagType(name) \o "Value", value |-> literalOf[name]]
    IN  SeqMap(argument, SeqFilter(isPassed, FlagNames))

ConnectionSelection == << Branch("edges", << Branch("node", << Leaf("firstName") >>) >>) >>
PlainSelection == << Leaf("firstName") >>

FileNames == <<"a.graphql", "b.graphql", "c.graphql", "d.graphql", "e.graphql">>

\* a field of the Query or User type tagged with `tags`
TaggedField(def, arguments, tags, hasSel, selections) ==
    FieldNode("users", arguments, tags, hasSel, selections, def)

CursorArgs == {"first", "after", "last", "before"}
Ten == [name \in FlagSet |-> IF FlagType(name) = "Int" THEN "10" ELSE "c1"]

ConnectionField(tags) ==
    TaggedField(ConnectionDef(CursorArgs), CallSite({"first"}, Ten), tags, TRUE, ConnectionSelection)
PlainField(tags) ==
    TaggedField(PlainDef({}), <<>>, tags, TRUE, PlainSelection)

ListTags ==
    { <<>> } \cup { << Tag(d, n) >> : d \in {listDirective, paginateDirective},
                                       n \in {"-", "$", "A"} }

QueryDocs ==
    { Document("OperationDefinition", "query", "Q", "", <<>>, <<>>, << f >>) :
        f \in {ConnectionField(t) : t \in ListTags} \cup {PlainField(t) : t \in ListTags} }

FragmentDocs ==
    { Document("FragmentDefinition", "", "F", type, <<>>, <<>>,
               << ConnectionField(<< Tag(paginateDirective, n) >>) >>) :
        type \in {"Query", "User", "Ghost"}, n \in {"-", "A"} }

OtherOperationDocs ==
    { Document("OperationDefinition", operation, "M", "", <<>>, <<>>,
               << ConnectionField(t) >>) :
        operation \in {"mutation", "subscription"},
        t \in { <<>>, << Tag(paginateDirective, "-") >> } }

\* a cursor field whose selection asks for the edges but not for their node,
\* and a list of scalars, which has no selection set
EdgesOnlySelection == << Branch("edges", << Leaf("cursor") >>) >>
ScalarDef == [args |-> {}, type |-> "String", typeKind |-> "scalar", edges |-> "none",
              edgeHasNode |-> FALSE, nodeType |-> "", nodeTypeKind |-> "scalar"]
OddDocs ==
    { Document("OperationDefinition", "query", "Q", "", <<>>, <<>>, << f >>) :
        f \in { TaggedField(ConnectionDef(CursorArgs), <<>>, << Tag(listDirective, "A") >>,
                            TRUE, EdgesOnlySelection),
                TaggedField(ScalarDef, <<>>, << Tag(listDirective, "A") >>, FALSE, <<>>) } }

\* a list of an interface type
InterfaceDef == [args |-> {}, type |-> "Entity", typeKind |-> "interface", edges |-> "none",
                 edgeHasNode |-> FALSE, nodeType |-> "", nodeTypeKind |-> "scalar"]
InterfaceDocs ==
    { Document("OperationDefinition", "query", "Q", "", <<>>, <<>>,
               << TaggedField(InterfaceDef, <<>>, << Tag(listDirective, "B") >>,
                              TRUE, PlainSelection) >>) }

\* a list whose selection asks for the id itself
IdSelection == << Leaf("id"), Leaf("firstName") >>
IdDocs ==
    { Document("OperationDefinition", "query", "Q", "", <<>>, <<>>,
               << TaggedField(PlainDef({}), <<>>, << Tag(listDirective, "C") >>,
                              TRUE, IdSelection) >>) }

DocMenu ==
    QueryDocs \cup FragmentDocs \cup OtherOperationDocs \cup OddDocs \cup InterfaceDocs
        \cup IdDocs

\* every list of 1..n documents of the menu, each in a file of its own
DocLists(menu, n) ==
    { [i \in DOMAIN docs |-> [docs[i] EXCEPT !.filename = FileNames[i]]] :
        docs \in UNION { [1..len -> menu] : len \in 1..n } }

PipelineInit(docs) ==
    /\ documents = docs
    /\ inputDocuments = docs
    /\ pc = "collected"
    /\ docFlags = <<>>
    /\ thrown = ""
    /\ errors = <<>>
    /\ lists = <<>>
    /\ newSchema = <<>>

\* --- the walkers and the compiler, and their state while the pipeline runs ---
ScalarNames == {"DateTime"}

ScalarConfig(configured, marshal, unmarshal) ==
    [scalars |-> [t \in ScalarNames |-> [configured |-> configured, marshal |-> marshal,
                                         unmarshal |-> unmarshal]]]
InputType(name, type) == [name |-> name, type |-> type]
InputDescriptor(present, fields, types) ==
    [input |-> [present |-> present, fields |-> fields, types |-> types]]

ScalarsInit(c, sel, a, d) ==
    /\ config = c
    /\ selection = sel
    /\ artifact = a
    /\ data = d
    /\ output = Returned(JsUndefined)
    /\ scalarsPc = "start"

ScalarsIdle ==
    ScalarsInit(ScalarConfig(FALSE, "", ""), <<>>, InputDescriptor(FALSE, <<>>, <<>>), JsNull)

NotGenerated == [name |-> "", selection |-> EmptySelection]

Route(beforeHook, afterHook, queries) ==
    [beforeHook |-> beforeHook, afterHook |-> afterHook, queries |-> queries]

LoadInit(r) ==
    /\ route = r
    /\ loadProgram = loadFunction(r.beforeHook, r.afterHook, r.queries)
    /\ loadPc = 1
    /\ loadContinue = TRUE
    /\ loadLog = <<>>

\* no route: nothing to run
LoadIdle ==
    /\ route = Route("", "", <<>>)
    /\ loadProgram = <<>>
    /\ loadPc = 1
    /\ loadContinue = TRUE
    /\ loadLog = <<>>

NotCompiled ==
    [mutation |-> FALSE, operations |-> <<>>, query |-> FALSE, node |-> listFieldNode(Leaf(""))]

ArtifactInit(spread, field) ==
    /\ mutationSpread = spread
    /\ listField = field
    /\ compiled = NotCompiled

ArtifactIdle == ArtifactInit(OperationSpread("", <<>>), Leaf(""))

SelectionInit(query, fragments) ==
    /\ queryDocument = query
    /\ fragmentDefinitions = fragments
    /\ generated = NotGenerated

CompilerInit(query, fragments) == SelectionInit(query, fragments) /\ ArtifactIdle

CompilerIdle == CompilerInit(<<>>, <<>>)

\* the messages of the errors the stages throw
NotAQueryError == "@paginate can only show up in a query or fragment document"
NoSelectionError == "Lists must have a selection"

\* --- the stages -----------------------------------------------------------
Paginated(r) ==
    /\ pc = "collected"
    /\ documents' = r.documents
    /\ docFlags' = r.flags
    /\ pc' = IF r.threw THEN "failed" ELSE "paginated"
    /\ thrown' = IF r.threw THEN NotAQueryError ELSE ""
    /\ UNCHANGED <<loadVars, inputDocuments, errors, lists, newSchema, scalarVars, compilerVars>>

Paginate == ~paginate(documents).threw /\ Paginated(paginate(documents))

PaginateThrows == paginate(documents).threw /\ Paginated(paginate(documents))

Listed(r, outcomes) ==
    /\ pc = "paginated"
    /\ r.outcome \in outcomes
    /\ documents' = r.documents
    /\ newSchema' = r.newSchema
    /\ lists' = r.lists
    /\ errors' = r.errors
    /\ thrown' = IF r.outcome = "ok" THEN ""
                 ELSE IF r.outcome = "Error" THEN NoSelectionError
                 ELSE r.outcome
    /\ pc' = IF r.outcome = "ok" THEN "listed" ELSE "failed"
    /\ UNCHANGED <<loadVars, inputDocuments, docFlags, scalarVars, compilerVars>>

AddListFragments == Listed(addListFragments(documents, newSchema), {"ok"})

AddListFragmentsThrowsErrors == Listed(addListFragments(documents, newSchema), {"errors"})

AddListFragmentsCrashes ==
    Listed(addListFragments(documents, newSchema), {"TypeError", "Error"})

Init ==
    /\ \E docs \in DocLists(DocMenu, MaxDocs) : PipelineInit(docs)
    /\ LoadIdle
    /\ ScalarsIdle
    /\ CompilerIdle

Next ==
    \/ Paginate
    \/ PaginateThrows
    \/ AddListFragments
    \/ AddListFragmentsThrowsErrors
    \/ AddListFragmentsCrashes

Spec == Init /\ [][Next]_vars

\* ------------------------------------------------------------------------
\* one paginated document, over every declared and call-site argument list
\* ------------------------------------------------------------------------
\* the values an argument is passed at the call site: a variable or a literal
ArgValues(name) ==
    IF name = "first" THEN {"$", "10", "0"}
    ELSE IF FlagType(name) = "Int" THEN {"$", "10"}
    ELSE {"$", "c1"}

Literals == { lit \in [FlagSet -> {"$", "10", "0", "c1"}] :
                \A name \in FlagSet : lit[name] \in ArgValues(name) }

\* the call sites a field that declares `declared` can validly have
CallSites(declared) ==
    { CallSite(passed, lit) : passed \in SUBSET declared, lit \in Literals }

ArgsDocs ==
    { Document(shape[1], shape[2], "P", shape[3], <<>>, <<>>,
               << TaggedField(ConnectionDef(def[1]), def[2],
                              << Tag(paginateDirective, "A") >>, TRUE,
                              ConnectionSelection) >>) :
        shape \in { <<"OperationDefinition", "query", "">>,
                    <<"FragmentDefinition", "", "User">>,
                    <<"FragmentDefinition", "", "Ghost">>,
                    <<"FragmentDefinition", "", "Query">> },
        def \in UNION { {<<declared, site>> : site \in CallSites(declared)} :
                        declared \in SUBSET FlagSet } }

InitArgs ==
    /\ \E doc \in ArgsDocs : PipelineInit(<< doc >>)
    /\ LoadIdle
    /\ ScalarsIdle
    /\ CompilerIdle

NextArgs == Paginate \/ AddListFragments

SpecArgs == InitArgs /\ [][NextArgs]_vars

\* ------------------------------------------------------------------------
\* one paginated query that already defines variables
\* ------------------------------------------------------------------------
DefinedVariable(name, type) ==
    [kind |-> "VariableDefinition", name |-> name, type |-> type, defaultValue |-> NoDefault]

\* the variable definitions the query is written with
DefinedVariables ==
    { <<>>,
      << DefinedVariable("x", "String") >>,
      << DefinedVariable("first", "Int!") >>,
      << DefinedVariable("x", "String"), DefinedVariable("first", "Int!") >>,
      << DefinedVariable("after", "ID"), DefinedVariable("limit", "Int!") >> }

HoistDocs ==
    { Document("OperationDefinition", "query", "P", "", defined, <<>>,
               << TaggedField(ConnectionDef(def[1]), CallSite(def[2], Ten),
                              << Tag(paginateDirective, "A") >>, TRUE,
                              ConnectionSelection) >>) :
        defined \in DefinedVariables,
        def \in UNION { {<<declared, passed>> : passed \in SUBSET declared} :
                        declared \in SUBSET FlagSet } }

InitHoist ==
    /\ \E doc \in HoistDocs : PipelineInit(<< doc >>)
    /\ LoadIdle
    /\ ScalarsIdle
    /\ CompilerIdle

SpecHoist == InitHoist /\ [][NextArgs]_vars

\* ------------------------------------------------------------------------
\* the scalar walkers as a state machine: one call, then the call of the
\* opposite direction on what the first one returned
\* ------------------------------------------------------------------------
\* no custom scalar, or a DateTime scalar with any of its two functions
Configs ==
    { ScalarConfig(FALSE, "", "") }
        \cup { ScalarConfig(TRUE, m, u) : m \in {"", getTime}, u \in {"", newDate} }

Times == 1..MaxTime

\* what a DateTime field can hold: null, the in-memory or the wire form, or a
\* list of either
DateTimeValues ==
    { JsNull }
        \cup { JsDate(t) : t \in Times } \cup { JsNumber(t) : t \in Times }
        \cup { JsArray(<< JsDate(t) >>) : t \in Times }
        \cup { JsArray(<< JsNumber(t) >>) : t \in Times }

Friend(v) == JsObject(<< Entry("date", v) >>)
FriendValues ==
    { JsNull }
        \cup { Friend(v) : v \in {JsNull, JsDate(1), JsNumber(1)} }
        \cup { JsArray(<< Friend(v) >>) : v \in {JsNull, JsDate(1), JsNumber(1)} }

\* an object entry, or none for an absent field
Optional(name, v) == IF v = JsUndefined THEN <<>> ELSE << Entry(name, v) >>

DataObjects ==
    { JsObject(Optional("date", d) \o Optional("name", n) \o Optional("friends", f)) :
        d \in {JsUndefined} \cup DateTimeValues,
        n \in {JsUndefined, JsString("a")},
        f \in {JsUndefined} \cup FriendValues }

DataValues ==
    DataObjects \cup { JsNull, JsArray(<< JsObject(<< Entry("date", JsDate(1)) >>), JsNull >>) }

FullSelection ==
    << SelectionEntry("date", "DateTime", FALSE, <<>>),
       SelectionEntry("name", "String", FALSE, <<>>),
       SelectionEntry("friends", "User", TRUE,
                      << SelectionEntry("date", "DateTime", FALSE, <<>>) >>) >>

\* the selections that hold any part of the full one
Selections ==
    { SelectSeq(FullSelection, LAMBDA e : e.name \in keys) :
        keys \in SUBSET {"date", "name", "friends"} }

UserFilter == [name |-> "UserFilter", fields |-> << InputType("date", "DateTime") >>]
Artifacts ==
    { InputDescriptor(FALSE, <<>>, <<>>) }
        \cup { InputDescriptor(TRUE,
                               << InputType("date", "DateTime"), InputType("name", "String"),
                                  InputType("friends", "UserFilter") >>,
                               types) : types \in { <<>>, << UserFilter >> } }

\* a first call on the data
Called(name, r) ==
    /\ scalarsPc = "start"
    /\ output' = r
    /\ scalarsPc' = name
    /\ UNCHANGED <<loadVars, config, selection, artifact, data, pipelineVars, compilerVars>>

MarshalSelection == Called("marshalSelection", marshalSelection(config, selection, data))

UnmarshalSelection == Called("unmarshalSelection", unmarshalSelection(config, selection, data))

MarshalInputs == Called("marshalInputs", marshalInputs(artifact, config, data, "@root"))

\* the opposite call on the value the first call returned
CalledBack(first, name, r) ==
    /\ scalarsPc = first
    /\ output.threw = ""
    /\ output' = r
    /\ scalarsPc' = name
    /\ UNCHANGED <<loadVars, config, selection, artifact, data, pipelineVars, compilerVars>>

UnmarshalMarshalled ==
    CalledBack("marshalSelection", "marshalSelection-unmarshalSelection",
               unmarshalSelection(config, selection, output.value))

MarshalUnmarshalled ==
    CalledBack("unmarshalSelection", "unmarshalSelection-marshalSelection",
               marshalSelection(config, selection, output.value))

InitScalars ==
    /\ \E c \in Configs, sel \in Selections, a \in Artifacts, d \in DataValues :
          ScalarsInit(c, sel, a, d)
    /\ PipelineInit(<<>>)
    /\ LoadIdle
    /\ CompilerIdle

NextScalars ==
    \/ MarshalSelection
    \/ UnmarshalSelection
    \/ MarshalInputs
    \/ UnmarshalMarshalled
    \/ MarshalUnmarshalled

SpecScalars == InitScalars /\ [][NextScalars]_vars

\* ------------------------------------------------------------------------
\* the selection compiler as a state machine: the artifact of the query or
\* of a fragment is generated from a query that selects `user` and two
\* fragments on User
\* ------------------------------------------------------------------------
LeafNames == <<"firstName", "id">>
Leaves(names) == SeqMap(Leaf, SelectSeq(LeafNames, LAMBDA name : name \in names))

\* the selection sets of `friends`: leaves, with or without a spread of B
FriendsSelections ==
    { Leaves(names) \o spread :
        names \in SUBSET Range(LeafNames), spread \in { <<>>, << FragmentSpread("B") >> } }
        \ { <<>> }

\* the selection sets on User: leaves, a friends field, and one of `spreads`
\* before or after them
UserSelections(spreads) ==
    { (IF spreadFirst THEN spread ELSE <<>>) \o Leaves(names) \o friends
        \o (IF spreadFirst THEN <<>> ELSE spread) :
        names \in SUBSET Range(LeafNames),
        friends \in { <<>> } \cup { << Branch("friends", s) >> : s \in FriendsSelections },
        spread \in spreads, spreadFirst \in BOOLEAN }
        \ { <<>> }

FragmentDefinition(name, selections) ==
    [name |-> name, typeCondition |-> "User", selections |-> selections]

\* the artifact of a document whose selection set is `selections`
Generated(name, selections) ==
    /\ generated = NotGenerated
    /\ generated' = [name |-> name,
                     selection |-> compileSelection(fragmentDefinitions, selections, <<>>,
                                                    FALSE, EmptySelection)]
    /\ UNCHANGED <<loadVars, queryDocument, fragmentDefinitions, mutationSpread, listField, compiled,
                   pipelineVars, scalarVars>>

GenerateQueryArtifact == Generated("TestQuery", queryDocument)

GenerateFragmentArtifact == Generated("A", fragmentDefinitions[1].selections)

InitSelection ==
    /\ \E userSelection \in UserSelections({ <<>>, << FragmentSpread("A") >> }),
          a \in UserSelections({ <<>> }),
          b \in { Leaves(names) : names \in SUBSET Range(LeafNames) } \ { <<>> } :
          CompilerInit(<< Branch("user", userSelection) >>,
                       << FragmentDefinition("A", a), FragmentDefinition("B", b) >>)
    /\ PipelineInit(<<>>)
    /\ LoadIdle
    /\ ScalarsIdle

NextSelection == GenerateQueryArtifact \/ GenerateFragmentArtifact

SpecSelection == InitSelection /\ [][NextSelection]_vars

\* ------------------------------------------------------------------------
\* the artifact generator over one mutation spread and one query field
\* ------------------------------------------------------------------------
ListName == "All_Users"

\* the guards a spread can carry: the argument of the list field they name
\* and the value, always written as a string
GuardMenu == { GuardFields("stringValue", "foo"), GuardFields("stringValue", "true"),
               GuardFields("boolValue", "true"), GuardFields("boolValue", "false") }

\* the argument lists of @prepend and @append
PositionArguments ==
    { <<>>, << StringArgument("parentID", "1234") >> }
        \cup { << ObjectArgument(which, g) >> : which \in {"when", "when_not"}, g \in GuardMenu }
        \cup { << StringArgument("parentID", "1234"), ObjectArgument(which, g) >> :
                  which \in {"when", "when_not"}, g \in GuardMenu }

PositionDirectives ==
    { <<>> } \cup { << OperationDirective(name, arguments) >> :
                      name \in {prependDirective, appendDirective},
                      arguments \in PositionArguments }

\* @parentID, @when and @when_not on their own
ParentDirectives ==
    { <<>>, << OperationDirective(parentIDDirective, << StringArgument("value", "1234") >>) >> }
GuardDirectives ==
    { <<>> } \cup { << OperationDirective(name, g) >> :
                      name \in {whenDirective, whenNotDirective}, g \in GuardMenu }

\* a spread names its parent and its guard at most once
OperationDirectives ==
    { ds \in { p \o q \o g : p \in PositionDirectives, q \in ParentDirectives,
                              g \in GuardDirectives } :
        /\ Len(ParentArguments(ds)) <= 1
        /\ Len(OperationGuards(ds)) <= 1 }

MutationSpreads ==
    { OperationSpread(listInsertFragment(ListName), ds) : ds \in OperationDirectives }
        \cup { OperationSpread(listRemoveFragment(ListName), <<>>),
               OperationSpread("UserInfo", <<>>) }

\* users(stringValue:, boolValue:, intValue:), any arguments passed, with or
\* without the list directive
FilterValues(name) ==
    IF name = "stringValue"
    THEN { [name |-> name, kind |-> "StringValue", value |-> "foo"],
           [name |-> name, kind |-> "Variable", value |-> "value"] }
    ELSE IF name = "boolValue"
    THEN { [name |-> name, kind |-> "BooleanValue", value |-> "true"] }
    ELSE { [name |-> name, kind |-> "IntValue", value |-> "10"] }

FilterArguments ==
    { <<>> }
        \cup { << a >> : a \in UNION { FilterValues(name) : name \in DOMAIN ListArgumentTypes } }
        \cup { << a, b >> : a \in FilterValues("stringValue"), b \in FilterValues("boolValue") }
        \cup { << a, b, c >> : a \in FilterValues("stringValue"), b \in FilterValues("boolValue"),
                               c \in FilterValues("intValue") }

ListFields ==
    { FieldNode("users", arguments, tags, TRUE, << Leaf("firstName") >>, PlainDef({})) :
        arguments \in FilterArguments,
        tags \in { <<>>, << Tag(listDirective, ListName) >> } }

\* the artifact of the mutation document
GenerateMutationArtifact ==
    /\ ~compiled.mutation
    /\ mutationSpread.name # ""
    /\ compiled' = [compiled EXCEPT !.mutation = TRUE,
                                    !.operations = operationsOf(<< ListName >>, mutationSpread)]
    /\ UNCHANGED <<loadVars, queryDocument, fragmentDefinitions, generated, mutationSpread, listField,
                   pipelineVars, scalarVars>>

\* the artifact of the query document
GenerateListArtifact ==
    /\ ~compiled.query
    /\ listField.name # ""
    /\ compiled' = [compiled EXCEPT !.query = TRUE, !.node = listFieldNode(listField)]
    /\ UNCHANGED <<loadVars, queryDocument, fragmentDefinitions, generated, mutationSpread, listField,
                   pipelineVars, scalarVars>>

InitArtifact ==
    /\ \E spread \in MutationSpreads, field \in ListFields : ArtifactInit(spread, field)
    /\ SelectionInit(<<>>, <<>>)
    /\ PipelineInit(<<>>)
    /\ LoadIdle
    /\ ScalarsIdle

NextArtifact == GenerateMutationArtifact \/ GenerateListArtifact

SpecArtifact == InitArtifact /\ [][NextArtifact]_vars

\* ------------------------------------------------------------------------
\* a run of the generated load function
\* ------------------------------------------------------------------------
MaxQueries == 2

\* the queries of a route, last declared first: one query, with or without
\* a variable function, or several without
QueryNames == << "TestQuery1", "TestQuery2", "TestQuery3", "TestQuery4" >>
RouteQueries ==
    { << RouteQuery("TestQuery", hasVariables) >> : hasVariables \in BOOLEAN }
        \cup { [k \in 1..n |-> RouteQuery(QueryNames[n + 1 - k], FALSE)] : n \in 2..MaxQueries }

Routes ==
    { Route(beforeHook, afterHook, queries) :
        beforeHook \in {"", "beforeLoad", "onLoad"},
        afterHook \in {"", "afterLoad"},
        queries \in RouteQueries }

AtStatement(op) ==
    /\ loadPc \in DOMAIN loadProgram
    /\ loadProgram[loadPc].op = op

\* the next statement, or out of the function
Step(returns, continue, events) ==
    /\ loadPc' = IF returns THEN Len(loadProgram) + 1 ELSE loadPc + 1
    /\ loadContinue' = continue
    /\ loadLog' = loadLog \o events
    /\ UNCHANGED <<route, loadProgram, pipelineVars, scalarVars, compilerVars>>

\* a hook runs; it may redirect or raise an error, which clears continue
InvokeLoadHook ==
    /\ AtStatement("invokeLoadHook")
    /\ \E goesOn \in BOOLEAN :
          Step(FALSE, loadContinue /\ goesOn,
               << LoadEvent("invokeLoadHook", loadProgram[loadPc].query,
                            loadProgram[loadPc].variant, FALSE) >>)

\* the input of a query: {} or what computeInput returns, which clears
\* continue when the variable function fails
ComputeInput ==
    /\ AtStatement("input")
    /\ \E goesOn \in BOOLEAN :
          /\ goesOn \/ loadProgram[loadPc].variant = "computeInput"
          /\ Step(FALSE, loadContinue /\ goesOn,
                  << LoadEvent("input", loadProgram[loadPc].query,
                               loadProgram[loadPc].variant, FALSE) >>)

\* if (!_houdini_context.continue) return
ReturnUnlessContinue ==
    /\ AtStatement("continue")
    /\ Step(~loadContinue, loadContinue,
            IF loadContinue THEN <<>> ELSE << LoadEvent("return", "", "", FALSE) >>)

\* the store starts loading
StoreLoad ==
    /\ AtStatement("load")
    /\ Step(FALSE, loadContinue, << LoadEvent("load", loadProgram[loadPc].query, "", FALSE) >>)

\* the load of a query settles, with data or without
AwaitLoad ==
    /\ AtStatement("await")
    /\ \E hasData \in BOOLEAN :
          Step(FALSE, loadContinue,
               << LoadEvent("await", loadProgram[loadPc].query, "", hasData) >>)

\* if (!_Q.result.data) { graphqlErrors(_Q); return }
ReturnUnlessData ==
    /\ AtStatement("data")
    /\ Step(~loadLog[Len(loadLog)].hasData, loadContinue,
            IF loadLog[Len(loadLog)].hasData THEN <<>>
            ELSE << LoadEvent("graphqlErrors", loadProgram[loadPc].query, "", FALSE),
                    LoadEvent("return", "", "", FALSE) >>)

\* return _houdini_context.returnValue
ReturnValue ==
    /\ AtStatement("return")
    /\ Step(TRUE, loadContinue, << LoadEvent("return", "", "", FALSE) >>)

InitLoad ==
    /\ \E r \in Routes : LoadInit(r)
    /\ PipelineInit(<<>>)
    /\ ScalarsIdle
    /\ CompilerIdle

NextLoad ==
    \/ InvokeLoadHook
    \/ ComputeInput
    \/ ReturnUnlessContinue
    \/ StoreLoad
    \/ AwaitLoad
    \/ ReturnUnlessData
    \/ ReturnValue

SpecLoad == InitLoad /\ [][NextLoad]_vars

\* ------------------------------------------------------------------------
\* Properties of the paginate transform
\* ------------------------------------------------------------------------
\* the tagged field of input document i, as it was collected
TaggedInput(i) == inputDocuments[i].document[1].selections[1]
Declares(i, names) == names \subseteq TaggedInput(i).def.args
Passes(i, name) == name \in NamesOf(TaggedInput(i).arguments)

FlagPairs == { {"first", "after"}, {"last", "before"}, {"limit", "offset"} }
EnabledPairs(f) == { pair \in FlagPairs : \E name \in pair : f[name].enabled }

\* C1: once paginate has visited a field carrying the pagination directive,
\* at most one of the pairs {first, after}, {last, before}, {limit, offset}
\* is enabled, whatever the field declares and the call site passes.
C1_AtMostOnePairEnabled ==
    \A i \in DOMAIN docFlags :
        IsPaginated(TaggedInput(i)) => Cardinality(EnabledPairs(docFlags[i])) <= 1

BackwardsOnly(f) ==
    /\ f["last"].enabled /\ f["before"].enabled
    /\ ~f["first"].enabled /\ ~f["after"].enabled

\* C2 as stated: for a tagged field that declares first, after, last and
\* before, a call site that passes `last` enables last/before and leaves
\* first/after disabled.
C2_LastSelectsBackwards ==
    \A i \in DOMAIN docFlags :
        (IsPaginated(TaggedInput(i)) /\ Declares(i, CursorArgs) /\ Passes(i, "last"))
            => BackwardsOnly(docFlags[i])

\* C2 as amended: the same, for a call site that passes `last` and does not
\* pass `first`.
C2_LastWithoutFirstSelectsBackwards ==
    \A i \in DOMAIN docFlags :
        (IsPaginated(TaggedInput(i)) /\ Declares(i, CursorArgs)
            /\ Passes(i, "last") /\ ~Passes(i, "first"))
            => BackwardsOnly(docFlags[i])

C2_Witness ==
    /\ pc = "paginated"
    /\ IsPaginated(TaggedInput(1)) /\ Declares(1, CursorArgs)
    /\ Passes(1, "last") /\ ~Passes(1, "first")
    /\ BackwardsOnly(docFlags[1])

\* C6: paginate throws exactly when some document holds a field carrying the
\* pagination directive (with a selection set) inside a mutation or a
\* subscription; tagged fields inside queries and fragments raise nothing.
C6_OnlyNonQueriesThrow ==
    pc # "collected" =>
        ((thrown = NotAQueryError) <=>
            \E i \in DOMAIN inputDocuments :
                /\ IsPaginated(TaggedInput(i))
                /\ inputDocuments[i].document[1].kind = "OperationDefinition"
                /\ inputDocuments[i].document[1].operation \in {"mutation", "subscription"})

C6_Witness ==
    /\ pc = "failed" /\ thrown = NotAQueryError
    /\ \E i \in DOMAIN inputDocuments :
          /\ IsPaginated(TaggedInput(i))
          /\ inputDocuments[i].document[1].operation = "subscription"

\* ------------------------------------------------------------------------
\* Properties of the list transform
\* ------------------------------------------------------------------------
\* the list stage was entered and has ended, normally or by raising
ListStageEnded == pc = "listed" \/ (pc = "failed" /\ thrown # NotAQueryError)

IsListTag(d) == d.name \in {listDirective, paginateDirective}

\* how a directive names its list: "-" without a name argument, "$" when the
\* argument is not a string, the string otherwise
NameAt(d, idx) ==
    IF idx = 0 THEN "-"
    ELSE IF d.arguments[idx].kind # "StringValue" THEN "$"
    ELSE d.arguments[idx].value
NameOfTag(d) == NameAt(d, ArgNamed("name", d.arguments))

\* the list and pagination directives of the collected documents, in the
\* order of the documents
TagsOfDocument(i) ==
    SeqMap(LAMBDA d : [filepath |-> inputDocuments[i].filename, directive |-> d.name,
                       name |-> NameOfTag(d)],
           SeqFilter(IsListTag, TaggedInput(i).directives))
TagOccurrences ==
    FoldIndex(LAMBDA acc, i : acc \o TagsOfDocument(i), <<>>, Len(inputDocuments))

\* occurrence k carries a string name that an earlier occurrence carries too
RepeatsName(occ, k) ==
    /\ occ[k].name \notin {"-", "$"}
    /\ \E j \in 1..(k - 1) : occ[j].name = occ[k].name

\* occurrence k is a naming problem
Offends(occ, k) ==
    \/ occ[k].name = "-" /\ occ[k].directive = listDirective
    \/ occ[k].name = "$"
    \/ RepeatsName(occ, k)

OffendersOf(occ) ==
    FoldIndex(LAMBDA acc, k : IF Offends(occ, k)
                              THEN Append(acc, [filepath |-> occ[k].filepath,
                                                directive |-> occ[k].directive])
                              ELSE acc,
              <<>>, Len(occ))

HasGeneratedDocument == \E i \in DOMAIN documents : documents[i].name = "generated::lists"

DuplicateNameIn(occ) == \E k \in DOMAIN occ : RepeatsName(occ, k)

ErrorsNameADuplicate(occ) ==
    /\ Len(errors) >= 1
    /\ \E e \in DOMAIN errors : \E k \in DOMAIN occ :
          RepeatsName(occ, k) /\ errors[e].filepath = occ[k].filepath

\* C4: when two list or pagination directives of the document set carry the
\* same string name, the list transform ends by raising a non-empty error set
\* with an entry located at an offending directive, and the synthesized
\* fragment document is not produced.
C4_DuplicateNamesRaiseErrorSet ==
    (ListStageEnded /\ DuplicateNameIn(TagOccurrences))
        => /\ thrown = "errors"
           /\ ErrorsNameADuplicate(TagOccurrences)
           /\ ~HasGeneratedDocument

ErrorsMatch(offenders) ==
    IF offenders = <<>>
    THEN thrown # "errors" /\ errors = <<>>
    ELSE /\ thrown = "errors"
         /\ SeqMap(LAMBDA e : [filepath |-> e.filepath, directive |-> e.directive], errors)
                = offenders

StringNames(occ) == { occ[k].name : k \in DOMAIN occ } \ {"-", "$"}

\* C5: the list transform walks every document and then raises an error set
\* holding exactly one error per offending directive occurrence, each with the
\* filename of its document; a pagination directive without a name is no
\* error and registers no list.
C5_OneErrorPerOffendingDirective ==
    ListStageEnded
        => /\ ErrorsMatch(OffendersOf(TagOccurrences))
           /\ { lists[k].name : k \in DOMAIN lists } = StringNames(TagOccurrences)

\* ------------------------------------------------------------------------
\* Properties of the two transforms together
\* ------------------------------------------------------------------------
IsConnectionTag(d) == IsListTag(d) /\ ArgNamed("connection", d.arguments) # 0

SelectsPath(selections, outer, inner) ==
    \E i \in DOMAIN selections :
        /\ IsFieldNamed(outer, selections[i])
        /\ \E j \in DOMAIN selections[i].selections :
              IsFieldNamed(inner, selections[i].selections[j])

HasPageInfo(selections) ==
    /\ SelectsPath(selections, "edges", "cursor")
    /\ \A name \in {"hasNextPage", "hasPreviousPage", "startCursor", "endCursor"} :
          SelectsPath(selections, "pageInfo", name)

TaggedOutput(i) == documents[i].document[1].selections[1]

\* C10: after paginate and then addListFragments, every field whose list or
\* pagination directive gained `connection: true` selects edges.cursor and
\* the four pageInfo fields, whichever pagination strategy was chosen.
C10_ConnectionsSelectPageInfo ==
    pc = "listed" =>
        \A i \in DOMAIN inputDocuments :
            (\E k \in DOMAIN TaggedOutput(i).directives :
                IsConnectionTag(TaggedOutput(i).directives[k]))
                => HasPageInfo(TaggedOutput(i).selections)

\* ------------------------------------------------------------------------
\* Properties of the selection compiler
\* ------------------------------------------------------------------------
FieldsOf(nodes) == { nodes[i] : i \in { j \in DOMAIN nodes : nodes[j].kind = "Field" } }
SpreadsOf(nodes) == { nodes[i] : i \in { j \in DOMAIN nodes : nodes[j].kind = "FragmentSpread" } }

\* the paths of response keys that a selection set reaches through fields
\* alone, without passing a fragment spread
RECURSIVE DirectPaths(_, _)
DirectPaths(nodes, path) ==
    UNION { {Append(path, f.name)} \cup DirectPaths(f.selections, Append(path, f.name)) :
            f \in FieldsOf(nodes) }

FragmentNamed(name) ==
    fragmentDefinitions[CHOOSE i \in DOMAIN fragmentDefinitions :
                            fragmentDefinitions[i].name = name]

\* the paths a selection set reaches, through fields and fragment spreads
RECURSIVE ReachablePaths(_, _)
ReachablePaths(nodes, path) ==
    UNION ( { {Append(path, f.name)} \cup ReachablePaths(f.selections, Append(path, f.name)) :
              f \in FieldsOf(nodes) }
            \cup { ReachablePaths(FragmentNamed(sp.name).selections, path) :
                   sp \in SpreadsOf(nodes) } )

\* the selection set of the document whose artifact was generated
GeneratedFrom ==
    IF generated.name = "TestQuery" THEN queryDocument ELSE FragmentNamed("A").selections

\* C3: in a compiled selection there is exactly one node per reachable path
\* of response keys, and its `masked` is false when the key is selected
\* directly at that level (even if a spread selects it too) and true when it
\* is reachable through fragment spreads only; nested nodes follow the rule.
C3_MaskedIffOnlySpread ==
    generated.name # "" =>
        /\ DOMAIN generated.selection = ReachablePaths(GeneratedFrom, <<>>)
        /\ \A path \in DOMAIN generated.selection :
              generated.selection[path] <=> path \notin DirectPaths(GeneratedFrom, <<>>)

\* query TestQuery { user { friends { firstName } ...A } } with
\* fragment A on User { friends { id } }, compiled
C3_Witness ==
    /\ generated.name = "TestQuery"
    /\ queryDocument = << Branch("user", << Branch("friends", << Leaf("firstName") >>),
                                            FragmentSpread("A") >>) >>
    /\ FragmentNamed("A").selections = << Branch("friends", << Leaf("id") >>) >>
    /\ generated.selection[<<"user", "friends">>] = FALSE
    /\ generated.selection[<<"user", "friends", "firstName">>] = FALSE
    /\ generated.selection[<<"user", "friends", "id">>] = TRUE

\* ------------------------------------------------------------------------
\* Properties of the scalar walkers
\* ------------------------------------------------------------------------
\* a value of a DateTime field in the given form ("date" in memory, "number"
\* on the wire): null, a value of that form, or a list of these
IsForm(v, form) == v.k = "null" \/ (v.k = form /\ v.s = "")
ScalarConforms(v, form) ==
    \/ IsForm(v, form)
    \/ v.k = "array" /\ \A i \in DOMAIN v.items : IsForm(v.items[i], form)

\* the value conforms to the selection entries: every field of every object
\* has its entry, and holds what its type says
RECURSIVE Conforms(_, _, _)
EntryConforms(sel, v, form) ==
    IF sel.hasFields THEN Conforms(sel.fields, v, form)
    ELSE IF sel.type = "DateTime" THEN ScalarConforms(v, form)
    ELSE v.k \in {"null", "string"}
Conforms(entries, v, form) ==
    IF v.k = "null" THEN TRUE
    ELSE IF v.k = "array" THEN \A i \in DOMAIN v.items : Conforms(entries, v.items[i], form)
    ELSE /\ v.k = "object"
         /\ \A i \in DOMAIN v.entries :
               /\ Lookup(entries, v.entries[i].name) # 0
               /\ EntryConforms(entries[Lookup(entries, v.entries[i].name)],
                                v.entries[i].value, form)

\* every configured custom scalar has marshal and unmarshal, inverses of each
\* other on the scalar's values
InverseFunctions ==
    \A t \in ScalarNames :
        config.scalars[t].configured
            => config.scalars[t].marshal = getTime /\ config.scalars[t].unmarshal = newDate

\* the call(s) made returned, and the round trip gave the data back
RoundTrips(first, form) ==
    (scalarsPc \in {first, first \o "-" \o (IF first = "marshalSelection"
                                            THEN "unmarshalSelection"
                                            ELSE "marshalSelection")}
        /\ Conforms(selection, data, form))
        => /\ output.threw = ""
           /\ scalarsPc # first => output.value = data

\* C7: with inverse marshal and unmarshal functions on every configured
\* scalar, on every value that conforms to the selection,
\* unmarshalSelection(marshalSelection(v)) = v and
\* marshalSelection(unmarshalSelection(v)) = v.
C7_RoundTrip ==
    InverseFunctions
        => RoundTrips("marshalSelection", "date") /\ RoundTrips("unmarshalSelection", "number")

\* the entries of an object that the selection has no entry for
Unselected(v) ==
    { i \in DOMAIN v.entries : Lookup(selection, v.entries[i].name) = 0 }

\* C8: when marshalSelection or unmarshalSelection walks an object, the call
\* returns, and every field of the data without an entry in the selection is
\* in the output with the value it had.
C8_UnselectedFieldsPassThrough ==
    (scalarsPc \in {"marshalSelection", "unmarshalSelection"} /\ data.k = "object")
        => /\ Unselected(data) # {} => output.threw = ""
           /\ output.threw = ""
                 => \A i \in Unselected(data) :
                       \E j \in DOMAIN output.value.entries :
                           output.value.entries[j] = data.entries[i]

\* the first field the walker visits is a DateTime scalar field: the walker
\* knows its type, the scalar is configured and the field holds a value
KnowsDateTime ==
    IF scalarsPc = "marshalInputs"
    THEN artifact.input.present
    ELSE Lookup(selection, "date") # 0
EncountersDateTime ==
    /\ data.k = "object" /\ data.entries # <<>>
    /\ data.entries[1].name = "date" /\ data.entries[1].value.k # "null"
    /\ KnowsDateTime
    /\ config.scalars["DateTime"].configured

\* the data holds a DateTime field at all, at any depth the universe has
HoldsDateTime(v) ==
    \/ v.k = "object" /\ \E i \in DOMAIN v.entries :
          \/ v.entries[i].name = "date"
          \/ v.entries[i].name = "friends" /\ v.entries[i].value.k # "null"
    \/ v.k = "array"

\* the function the direction of the call requires, "" when it is missing
RequiredFunction ==
    IF scalarsPc = "unmarshalSelection" THEN config.scalars["DateTime"].unmarshal
    ELSE config.scalars["DateTime"].marshal
ConfigurationError ==
    IF scalarsPc = "unmarshalSelection" THEN MissingUnmarshal ELSE MissingMarshal

\* C9: a walker that meets a value of a configured custom scalar without the
\* function its direction requires (marshal for marshalSelection and
\* marshalInputs, unmarshal for unmarshalSelection) raises the configuration
\* error; when the data holds no value of the scalar nothing is raised for it.
C9_MissingFunctionRaises ==
    scalarsPc \in {"marshalSelection", "unmarshalSelection", "marshalInputs"}
        => /\ (EncountersDateTime /\ RequiredFunction = "")
                 => output.threw = ConfigurationError
           /\ ~HoldsDateTime(data)
                 => output.threw \notin {MissingMarshal, MissingUnmarshal}

\* ------------------------------------------------------------------------
\* Properties of the synthesized refetch query
\* ------------------------------------------------------------------------
InputDefinition(i) == inputDocuments[i].document[1]
IsPaginatedFragment(i) ==
    InputDefinition(i).kind = "FragmentDefinition" /\ IsPaginated(TaggedInput(i))

\* the names of the flags paginate enabled for document i, in flag order
EnabledNames(i) == SelectSeq(FlagNames, LAMBDA name : docFlags[i][name].enabled)

\* every argument is a variable reference named like the argument, and the
\* arguments are exactly `names`, in order
ForwardsByName(arguments, names) ==
    /\ SeqMap(LAMBDA a : a.name, arguments) = names
    /\ \A k \in DOMAIN arguments :
          arguments[k].kind = "Variable" /\ arguments[k].value = arguments[k].name

\* the node is a spread of the fragment whose `with` directive forwards the
\* enabled flags
IsSpreadOf(node, fragmentName, names) ==
    /\ node.kind = "FragmentSpread" /\ node.name = fragmentName
    /\ Len(node.directives) = 1
    /\ node.directives[1].name = withDirective
    /\ ForwardsByName(node.directives[1].arguments, names)

\* the node is the lookup field of the type, wrapping the spread
IsLookupOf(node, type, fragmentName, names) ==
    /\ node.kind = "Field" /\ node.name = queryFieldForType(type)
    /\ ForwardsByName(node.arguments, keyFieldsForType(type))
    /\ Len(node.selections) = 1
    /\ IsSpreadOf(node.selections[1], fragmentName, names)

IsRefetchQueryOf(query, fragment, names) ==
    /\ query.kind = "OperationDefinition" /\ query.operation = "query"
    /\ Len(query.selections) = 1
    /\ IF fragment.typeCondition = QueryTypeName
       THEN /\ IsSpreadOf(query.selections[1], fragment.name, names)
            /\ SeqMap(LAMBDA v : v.name, query.variableDefinitions) = names
       ELSE /\ IsLookupOf(query.selections[1], fragment.typeCondition, fragment.name, names)
            /\ SeqMap(LAMBDA v : v.name, query.variableDefinitions)
                  = names \o keyFieldsForType(fragment.typeCondition)

\* C11: the refetch query synthesized for a paginated fragment has one
\* top-level selection, the spread of the fragment for a fragment on Query and
\* else the type's lookup field with one variable argument per key field
\* around the spread; it declares one variable per enabled flag (and per key
\* field in the lookup case) and the spread's `with` directive forwards
\* exactly the enabled flags by name.
C11_RefetchQueryShape ==
    (pc = "paginated" /\ IsPaginatedFragment(1))
        => /\ Len(documents) = 2
           /\ Len(documents[2].document) = 1
           /\ IsRefetchQueryOf(documents[2].document[1], InputDefinition(1), EnabledNames(1))

C11_Witness ==
    /\ pc = "paginated" /\ IsPaginatedFragment(1)
    /\ InputDefinition(1).typeCondition = "Ghost"
    /\ EnabledNames(1) = <<"first", "after">>
    /\ documents[2].document[1].selections[1].name = "ghost"
    /\ Len(documents[2].document[1].selections[1].arguments) = 2
    /\ Len(documents[2].document[1].variableDefinitions) = 4

\* ------------------------------------------------------------------------
\* Properties of the hoisted fragment arguments
\* ------------------------------------------------------------------------
\* the entries of the arguments directive of document i after paginate
ArgumentsEntries(i) ==
    FlatMap(LAMBDA d : IF d.name = argumentsDirective THEN d.arguments ELSE <<>>,
            documents[i].document[1].directives)

TwoCopies ==
    /\ Len(inputDocuments) = 2
    /\ InputDefinition(1) = InputDefinition(2)
    /\ IsPaginatedFragment(1)

IsUntagged(i) == \A k \in DOMAIN TaggedInput(i).directives : ~IsListTag(TaggedInput(i).directives[k])

\* the document at index i is input document i
StillThere(i) ==
    /\ documents[i].name = inputDocuments[i].name
    /\ documents[i].filename = inputDocuments[i].filename
    /\ documents[i].kind = inputDocuments[i].kind
    /\ documents[i].generate

\* a document one of the transforms made: a refetch query or the list fragments
IsSynthesized(d) ==
    \/ d.name = "generated::lists"
    \/ \E i \in DOMAIN inputDocuments :
          IsPaginatedFragment(i) /\ d.name = paginationQueryName(inputDocuments[i].name)

\* C13: after paginate and addListFragments ran without error every input
\* document is at its original index, the synthesized documents come after
\* all of them, and a document without list or pagination directive has the
\* AST it had before.
C13_InputDocumentsKept ==
    pc = "listed"
        => /\ Len(documents) >= Len(inputDocuments)
           /\ \A i \in DOMAIN inputDocuments :
                 /\ StillThere(i)
                 /\ IsUntagged(i) => documents[i].document = inputDocuments[i].document
           /\ \A j \in DOMAIN documents :
                 j > Len(inputDocuments) => IsSynthesized(documents[j])

C13_Witness ==
    /\ pc = "listed"
    /\ Len(inputDocuments) = 2 /\ Len(documents) = 4
    /\ IsPaginatedFragment(1)
    /\ IsUntagged(2) /\ documents[2].document = inputDocuments[2].document
    /\ documents[3].name = paginationQueryName(inputDocuments[1].name)
    /\ documents[4].name = "generated::lists"

\* ------------------------------------------------------------------------
\* Properties of the document the list transform generates
\* ------------------------------------------------------------------------
GeneratedDocuments == { j \in DOMAIN documents : documents[j].name = "generated::lists" }

DefinitionsOfKind(definitions, kind) ==
    SelectSeq(definitions, LAMBDA d : d.kind = kind)

\* the object types the registered lists target
ObjectTargets == { lists[k].type : k \in { n \in DOMAIN lists : lists[n].typeKind = "object" } }

\* three fragments per list, and one delete directive per object type
HoldsListDefinitions(definitions) ==
    /\ SeqMap(LAMBDA d : d.name, DefinitionsOfKind(definitions, "FragmentDefinition"))
          = FlatMap(LAMBDA l : << listInsertFragment(l.name), listToggleFragment(l.name),
                                  listRemoveFragment(l.name) >>, lists)
    /\ Len(DefinitionsOfKind(definitions, "DirectiveDefinition")) = Cardinality(ObjectTargets)
    /\ { d.name : d \in Range(DefinitionsOfKind(definitions, "DirectiveDefinition")) }
          = { listDeleteDirective(t) : t \in ObjectTargets }
    /\ Len(definitions) = 3 * Len(lists) + Cardinality(ObjectTargets)

\* C14: with at least one list registered and no error, addListFragments
\* appends exactly one document, generated::lists with generate = false,
\* holding three fragments per list and one delete directive per distinct
\* object type targeted (none for other kinds of type), and appends the same
\* definitions to the schema text; with no list it appends nothing and leaves
\* the schema text as it was.
C14_GeneratedDocument ==
    pc = "listed"
        => IF lists = <<>>
           THEN GeneratedDocuments = {} /\ newSchema = <<>>
           ELSE /\ GeneratedDocuments = { Len(documents) }
                /\ ~documents[Len(documents)].generate
                /\ HoldsListDefinitions(documents[Len(documents)].document)
                /\ newSchema = documents[Len(documents)].document

C14_Witness ==
    /\ pc = "listed"
    /\ Len(lists) = 2
    /\ lists[1].typeKind = "object" /\ lists[2].typeKind = "interface"
    /\ Len(documents[Len(documents)].document) = 7
    /\ newSchema = documents[Len(documents)].document

\* ------------------------------------------------------------------------
\* Properties of connectionSelection
\* ------------------------------------------------------------------------
\* what connectionSelection returns for the tagged field of input document i
ClassifiedInput(i) ==
    connectionSelection(TaggedInput(i).def, TaggedInput(i).hasSel, TaggedInput(i).selections)

\* the field's own selection set and type, connection = false
IsPlainResult(i, r) ==
    /\ ~r.connection
    /\ r.hasSel = TaggedInput(i).hasSel
    /\ r.selection = TaggedInput(i).selections
    /\ r.type = TaggedInput(i).def.type

\* C19: connectionSelection returns normally for every tagged field and
\* selection set: it never raises, and what it returns is either a
\* connection or the field's own selection set and type with connection =
\* false; the list stage therefore never ends with a TypeError.
C19_ConnectionSelectionReturns ==
    ListStageEnded
        => /\ thrown # "TypeError"
           /\ \A i \in DOMAIN inputDocuments :
                 ~IsUntagged(i)
                    => /\ ~ClassifiedInput(i).threw
                       /\ ClassifiedInput(i).connection \/ IsPlainResult(i, ClassifiedInput(i))

\* ------------------------------------------------------------------------
\* Properties of replaceArgumentsWithVariables
\* ------------------------------------------------------------------------
\* the JS value of a literal of the call sites
LiteralValue(lit) ==
    IF lit = "10" THEN Num(10) ELSE IF lit = "0" THEN Num(0) ELSE Str(lit)

\* argument k of the rewritten field is a variable reference of the name of
\* argument k of the call site, whose literal is the default of that flag
BecameVariable(k) ==
    /\ k <= Len(TaggedOutput(1).arguments)
    /\ TaggedOutput(1).arguments[k] = variableAsArgument(TaggedInput(1).arguments[k].name)
    /\ TaggedInput(1).arguments[k].kind # "Variable"
          => docFlags[1][TaggedInput(1).arguments[k].name].defaultValue
                = LiteralValue(TaggedInput(1).arguments[k].value)

IsEnabledArgument(k) == docFlags[1][TaggedInput(1).arguments[k].name].enabled

\* C20 as stated: after paginate rewrites a tagged field, every call-site
\* argument named first, after, last, before, limit or offset is a variable
\* reference of the same name, and a literal is stored as the default value
\* of the flag of that name.
C20_CallSiteArgumentsBecomeVariables ==
    pc = "paginated"
        => \A k \in DOMAIN TaggedInput(1).arguments :
              TaggedInput(1).arguments[k].name \in FlagSet => BecameVariable(k)

\* C20 amended: that holds of the call-site arguments whose flag the
\* transform enabled; an argument of a flag that is not enabled is left as
\* the call site wrote it.
C20_EnabledArgumentsBecomeVariables ==
    pc = "paginated"
        => \A k \in DOMAIN TaggedInput(1).arguments :
              IF IsEnabledArgument(k) THEN BecameVariable(k)
              ELSE /\ k <= Len(TaggedOutput(1).arguments)
                   /\ TaggedOutput(1).arguments[k] = TaggedInput(1).arguments[k]

C20_Witness ==
    /\ pc = "paginated"
    /\ TaggedInput(1).arguments
          = << [name |-> "first", kind |-> "IntValue", value |-> "10"],
               [name |-> "after", kind |-> "StringValue", value |-> "c1"],
               [name |-> "limit", kind |-> "IntValue", value |-> "10"] >>
    /\ TaggedOutput(1).arguments
          = << variableAsArgument("first"), variableAsArgument("after"),
               [name |-> "limit", kind |-> "IntValue", value |-> "10"] >>
    /\ docFlags[1]["first"].defaultValue = Num(10)
    /\ docFlags[1]["after"].defaultValue = Str("c1")
    /\ docFlags[1]["limit"].defaultValue = Undefined

\* ------------------------------------------------------------------------
\* Properties of the operations of a compiled mutation
\* ------------------------------------------------------------------------
IsInsertSpread == mutationSpread.name = listInsertFragment(ListName)

SpreadCarries(name) ==
    \E k \in DOMAIN mutationSpread.directives : mutationSpread.directives[k].name = name

\* the parents the spread names, by any of the three ways
NamedParents ==
    { d.arguments[j].value :
        <<d, j>> \in { <<e, i>> \in Range(mutationSpread.directives) \X (1..3) :
                        /\ i \in DOMAIN e.arguments
                        /\ \/ e.name \in {prependDirective, appendDirective}
                                 /\ e.arguments[i].name = "parentID"
                           \/ e.name = parentIDDirective /\ e.arguments[i].name = "value" } }

\* C15: the spread of a list's insert fragment compiles to exactly one
\* operations entry, {action: insert, list}, whose position is first iff
\* the spread carries the prepend directive and last otherwise, and whose
\* parentID is {kind, value} of the parent named by @prepend(parentID:),
\* @append(parentID:) or @parentID(value:) alike, absent when none is named.
C15_InsertOperation ==
    (compiled.mutation /\ IsInsertSpread)
        => /\ Len(compiled.operations) = 1
           /\ compiled.operations[1].action = "insert"
           /\ compiled.operations[1].list = ListName
           /\ compiled.operations[1].hasPosition
           /\ compiled.operations[1].position
                 = (IF SpreadCarries(prependDirective) THEN "first" ELSE "last")
           /\ compiled.operations[1].hasParentID <=> NamedParents # {}
           /\ compiled.operations[1].hasParentID
                 => /\ compiled.operations[1].parentID.kind = "String"
                    /\ compiled.operations[1].parentID.value \in NamedParents

C15_Witness ==
    /\ compiled.mutation
    /\ mutationSpread
          = OperationSpread("All_Users_insert",
                << OperationDirective("append", <<>>),
                   OperationDirective("parentID", << StringArgument("value", "1234") >>) >>)
    /\ Len(compiled.operations) = 1
    /\ compiled.operations[1].position = "last"
    /\ compiled.operations[1].parentID = [kind |-> "String", value |-> "1234"]

\* the guards the spread names: <<must or must_not, argument, value>>,
\* written as an argument of @prepend / @append or as a directive
WrittenGuards ==
    { << IF w = "when" THEN "must" ELSE "must_not", g[1].value, g[2].value >> :
        <<w, g>> \in { <<x, f>> \in {"when", "when_not"} \X GuardMenu :
                        \E d \in Range(mutationSpread.directives) :
                           \/ d.name = x /\ d.arguments = f
                           \/ /\ d.name \in {prependDirective, appendDirective}
                              /\ \E i \in DOMAIN d.arguments :
                                    d.arguments[i].name = x /\ d.arguments[i].fields = f } }

\* the value of a guard on `argument`, of the type users declares for it
TypedValue(argument, value) ==
    IF argument = "boolValue" THEN Bool(value = "true") ELSE Str(value)

\* C16: a when / when_not guard compiles to the same guard whether it is an
\* argument of @prepend / @append or a directive of its own: when gives
\* must, when_not gives must_not, the value is converted to the type of the
\* argument of the list field it names, and without a guard there is no
\* when key.
C16_GuardsCompileAlike ==
    (compiled.mutation /\ IsInsertSpread)
        => /\ compiled.operations[1].hasWhen <=> WrittenGuards # {}
           /\ \A g \in WrittenGuards :
                 /\ compiled.operations[1].when.which = g[1]
                 /\ compiled.operations[1].when.argument = g[2]
                 /\ compiled.operations[1].when.value = TypedValue(g[2], g[3])

C16_Witness ==
    /\ compiled.mutation
    /\ mutationSpread
          = OperationSpread("All_Users_insert",
                << OperationDirective("when_not", GuardFields("boolValue", "true")) >>)
    /\ compiled.operations[1].hasWhen
    /\ compiled.operations[1].when
          = [which |-> "must_not", argument |-> "boolValue", value |-> Bool(TRUE)]

\* ------------------------------------------------------------------------
\* Properties of the compiled node of a list field
\* ------------------------------------------------------------------------
\* argument k of the field, as it is printed in a document
PrintedArgument(k) ==
    listField.arguments[k].name \o ": " \o
        (IF listField.arguments[k].kind = "Variable" THEN "$value"
         ELSE IF listField.arguments[k].name = "stringValue" THEN "\"foo\""
         ELSE listField.arguments[k].value)

PrintedField ==
    IF Len(listField.arguments) = 0 THEN "users"
    ELSE IF Len(listField.arguments) = 1 THEN "users(" \o PrintedArgument(1) \o ")"
    ELSE IF Len(listField.arguments) = 2
    THEN "users(" \o PrintedArgument(1) \o ", " \o PrintedArgument(2) \o ")"
    ELSE "users(" \o PrintedArgument(1) \o ", " \o PrintedArgument(2) \o ", "
                  \o PrintedArgument(3) \o ")"

IsFilterOf(filter, argument) ==
    /\ filter.name = argument.name
    /\ IF argument.kind = "Variable"
       THEN filter.kind = "Variable" /\ filter.value = Str(argument.value)
       ELSE IF argument.kind = "StringValue"
       THEN filter.kind = "String" /\ filter.value = Str("foo")
       ELSE IF argument.kind = "BooleanValue"
       THEN filter.kind = "Boolean" /\ filter.value = Bool(TRUE)
       ELSE filter.kind = "Int" /\ filter.value = Num(10)

\* C17: the compiled node of a field with the list directive has list = the
\* name of the directive and filters with one entry per call-site argument,
\* a variable by name and a literal by scalar kind and parsed value; keyRaw
\* is the name of the field followed by its printed arguments; a field
\* without the directive has neither list nor filters.
C17_ListMetadata ==
    compiled.query
        => /\ compiled.node.keyRaw = PrintedField
           /\ IF \E k \in DOMAIN listField.directives :
                    listField.directives[k].name = listDirective
              THEN /\ compiled.node.hasList /\ compiled.node.list = ListName
                   /\ compiled.node.hasFilters
                   /\ Len(compiled.node.filters) = Len(listField.arguments)
                   /\ \A k \in DOMAIN listField.arguments :
                         IsFilterOf(compiled.node.filters[k], listField.arguments[k])
              ELSE ~compiled.node.hasList /\ ~compiled.node.hasFilters

C17_Witness ==
    /\ compiled.query
    /\ listField.directives # <<>>
    /\ compiled.node.keyRaw = "users(stringValue: \"foo\", boolValue: true)"
    /\ compiled.node.list = "All_Users"
    /\ compiled.node.filters
          = << [name |-> "stringValue", kind |-> "String", value |-> Str("foo")],
               [name |-> "boolValue", kind |-> "Boolean", value |-> Bool(TRUE)] >>

\* ------------------------------------------------------------------------
\* Properties of the generated load function
\* ------------------------------------------------------------------------
IsHookCall(e, variant) == e.event = "invokeLoadHook" /\ e.variant = variant

RouteQueryNames == { route.queries[k].name : k \in DOMAIN route.queries }

\* the before hook has run ahead of call i
BeforeHookAhead(i) ==
    \E j \in 1..(i - 1) :
        IsHookCall(loadLog[j], "before") /\ loadLog[j].query = route.beforeHook

\* every query has been awaited ahead of call i and carried data
AllDataAhead(i) ==
    \A q \in RouteQueryNames :
        \E j \in 1..(i - 1) :
            loadLog[j].event = "await" /\ loadLog[j].query = q /\ loadLog[j].hasData

\* a load without data is followed by graphqlErrors and the return
EndsWithErrors(i) ==
    /\ Len(loadLog) = i + 2
    /\ loadLog[i + 1].event = "graphqlErrors" /\ loadLog[i + 1].query = loadLog[i].query
    /\ loadLog[i + 2].event = "return"

\* C18: in a run of the generated load function the before hook (beforeLoad
\* or the deprecated onLoad) is invoked before any input is computed and
\* before any store starts loading; afterLoad is invoked only after every
\* query has been awaited and found to carry data; and a query without data
\* makes load report the GraphQL errors and return without invoking
\* afterLoad.
C18_HooksAroundLoads ==
    \A i \in DOMAIN loadLog :
        /\ (route.beforeHook # "" /\ loadLog[i].event \in {"input", "load"})
              => BeforeHookAhead(i)
        /\ IsHookCall(loadLog[i], "after") => AllDataAhead(i)
        /\ (loadLog[i].event = "await" /\ ~loadLog[i].hasData)
              => /\ \A j \in DOMAIN loadLog : ~IsHookCall(loadLog[j], "after")
                 /\ loadPc \notin DOMAIN loadProgram => EndsWithErrors(i)
                 /\ loadPc \in DOMAIN loadProgram => loadProgram[loadPc].op = "data"

C18_Witness ==
    /\ route.beforeHook = "onLoad" /\ route.afterHook = "afterLoad"
    /\ Len(route.queries) = 2
    /\ loadPc \notin DOMAIN loadProgram
    /\ Len(loadLog) = 9
    /\ IsHookCall(loadLog[1], "before")
    /\ loadLog[6].event = "await" /\ loadLog[6].hasData
    /\ loadLog[7].event = "await" /\ loadLog[7].hasData
    /\ IsHookCall(loadLog[8], "after")

\* ------------------------------------------------------------------------
\* Properties of the defaults paginate hoists
\* ------------------------------------------------------------------------
\* the literals the call site of document 1 passes for the argument `name`
CallSiteLiterals(name) ==
    SelectSeq(TaggedInput(1).arguments, LAMBDA a : a.name = name /\ a.kind # "Variable")

\* the `default` fields of the arguments-directive entries named `name`
EntryDefaults(name) ==
    FlatMap(LAMBDA e : IF e.name = name
                       THEN SelectSeq(e.fields, LAMBDA f : f.name = "default")
                       ELSE <<>>,
            ArgumentsEntries(1))

\* the definition that declares the pagination variables of document 1: the
\* query itself, or the refetch query of the fragment
PaginationQuery ==
    IF IsPaginatedFragment(1) THEN documents[2].document[1] ELSE documents[1].document[1]

\* the default values of the variable definitions named `name`
VariableDefaults(name) ==
    SeqMap(LAMBDA d : d.defaultValue,
           SelectSeq(PaginationQuery.variableDefinitions, LAMBDA d : d.name = name))

\* the literal is the default of the entry and of the variable
CarriesDefault(name, literal) ==
    /\ IsPaginatedFragment(1)
          => /\ Len(EntryDefaults(name)) = 1
             /\ EntryDefaults(name)[1].value = literal.value
             /\ EntryDefaults(name)[1].kind = literal.kind
    /\ Len(VariableDefaults(name)) = 1
    /\ VariableDefaults(name)[1].present
    /\ VariableDefaults(name)[1].kind = literal.kind
    /\ VariableDefaults(name)[1].value = LiteralValue(literal.value)

CarriesNoDefault(name) ==
    /\ EntryDefaults(name) = <<>>
    /\ Len(VariableDefaults(name)) = 1
    /\ ~VariableDefaults(name)[1].present

DefaultFollowsCallSite(name, literals) ==
    IF literals = <<>> THEN CarriesNoDefault(name) ELSE CarriesDefault(name, literals[1])

\* C21: for every enabled flag whose call-site argument was an Int or String
\* literal v, the entry of the fragment's arguments directive carries
\* default: v and the variable definition on the paginated query or on the
\* refetch query has the default value v; a flag without a call-site literal
\* has no default.
C21_LiteralsBecomeDefaults ==
    pc = "paginated"
        => \A name \in FlagSet :
              docFlags[1][name].enabled
                 => DefaultFollowsCallSite(name, CallSiteLiterals(name))

\* ------------------------------------------------------------------------
\* Properties of the variables hoisted onto a paginated query
\* ------------------------------------------------------------------------
DefinedBefore == InputDefinition(1).variableDefinitions
DefinedAfter == documents[1].document[1].variableDefinitions

DefinedNames(definitions) == { definitions[k].name : k \in DOMAIN definitions }

\* the enabled flags the query did not define itself, in flag order
NewNames ==
    SelectSeq(EnabledNames(1), LAMBDA name : name \notin DefinedNames(DefinedBefore))

\* C22: after paginate rewrites a paginated query its variable definitions
\* hold every name at most once: the definitions it had are kept as they
\* were, also one named like an enabled flag, and one definition is added
\* for each enabled flag whose name was not defined.
C22_VariablesDefinedOnce ==
    (pc = "paginated" /\ InputDefinition(1).kind = "OperationDefinition")
        => /\ \A j, k \in DOMAIN DefinedAfter :
                 DefinedAfter[j].name = DefinedAfter[k].name => j = k
           /\ Len(DefinedAfter) = Len(DefinedBefore) + Len(NewNames)
           /\ SubSeq(DefinedAfter, 1, Len(DefinedBefore)) = DefinedBefore
           /\ SeqMap(LAMBDA d : d.name,
                     SubSeq(DefinedAfter, Len(DefinedBefore) + 1, Len(DefinedAfter)))
                 = NewNames

C22_Witness ==
    /\ pc = "paginated"
    /\ DefinedBefore = << DefinedVariable("x", "String"), DefinedVariable("first", "Int!") >>
    /\ EnabledNames(1) = << "first", "after" >>
    /\ SeqMap(LAMBDA d : d.name, DefinedAfter) = << "x", "first", "after" >>
    /\ DefinedAfter[2] = DefinedVariable("first", "Int!")

\* ------------------------------------------------------------------------
\* Properties of a tagged field that supports no pagination strategy
\* ------------------------------------------------------------------------
\* none of the three strategies applies at the call site of document 1
SupportsNoStrategy ==
    /\ ~forwardPagination(TaggedInput(1).def.args, NamesOf(TaggedInput(1).arguments))
    /\ ~backwardsPagination(TaggedInput(1).def.args, NamesOf(TaggedInput(1).arguments))
    /\ ~offsetPagination(TaggedInput(1).def.args, NamesOf(TaggedInput(1).arguments))

\* C23: when the field carrying the pagination directive supports none of
\* the three strategies at its call site, paginate leaves the arguments and
\* the selection set of the field as they were, hoists no variables, records
\* no refetch descriptor on the document and synthesizes no refetch query.
C23_NoStrategyIsANoOp ==
    (pc = "paginated" /\ SupportsNoStrategy)
        => /\ TaggedOutput(1).arguments = TaggedInput(1).arguments
           /\ TaggedOutput(1).selections = TaggedInput(1).selections
           /\ documents[1].document[1].variableDefinitions
                 = InputDefinition(1).variableDefinitions
           /\ ~documents[1].refetch.present
           /\ Len(documents) = Len(inputDocuments)

\* ------------------------------------------------------------------------
\* Properties of the refetch descriptor and the synthesized documents
\* ------------------------------------------------------------------------
\* the input documents that are paginated fragments, in document order
PaginatedFragments ==
    SelectSeq([i \in DOMAIN inputDocuments |-> i], LAMBDA i : IsPaginatedFragment(i))

\* the documents paginate appended
Appended == SubSeq(documents, Len(inputDocuments) + 1, Len(documents))

\* d is the refetch query of the rewritten fragment document `original`
IsRefetchDocumentOf(d, original) ==
    /\ d.name = paginationQueryName(original.name)
    /\ d.kind = "HoudiniQuery"
    /\ d.generate
    /\ d.filename = original.filename
    /\ d.refetch.present
    /\ d.refetch = original.refetch

\* C24: for every document with a pagination-tagged field inside a fragment
\* paginate appends exactly one query document, named by the refetch-query
\* name of the fragment, with generate = true, the same filename and the
\* refetch descriptor recorded on the original document; for a tagged field
\* inside a query the descriptor is recorded on that document and nothing is
\* appended.
C24_OneRefetchDocumentPerFragment ==
    pc = "paginated"
        => /\ Len(Appended) = Len(PaginatedFragments)
           /\ \A k \in DOMAIN PaginatedFragments :
                 IsRefetchDocumentOf(Appended[k], documents[PaginatedFragments[k]])
           /\ \A i \in DOMAIN inputDocuments :
                 (IsPaginated(TaggedInput(i)) /\ InputDefinition(i).kind = "OperationDefinition")
                    => documents[i].refetch.present

C24_Witness ==
    /\ pc = "paginated"
    /\ Len(inputDocuments) = 2
    /\ IsPaginated(TaggedInput(1)) /\ InputDefinition(1).kind = "OperationDefinition"
    /\ IsPaginatedFragment(2)
    /\ Len(documents) = 3
    /\ documents[1].refetch.present
    /\ documents[3].name = "F_Pagination_Query"
    /\ documents[3].refetch = documents[2].refetch
    /\ documents[3].refetch.embedded

\* ---------------------------------------------------------------------------
\* null values in the data of the scalar walkers

\* every null or undefined position of v (v itself, an array element, the
\* value of an object field) holds the same value at the same position of w
RECURSIVE NullsKept(_, _)
NullsKept(v, w) ==
    IF v.k \in {"null", "undefined"} THEN w = v
    ELSE IF v.k = "array"
    THEN /\ w.k = "array" /\ Len(w.items) = Len(v.items)
         /\ \A i \in DOMAIN v.items : NullsKept(v.items[i], w.items[i])
    ELSE IF v.k = "object"
    THEN /\ w.k = "object" /\ Len(w.entries) = Len(v.entries)
         /\ \A i \in DOMAIN v.entries :
               NullsKept(v.entries[i].value, w.entries[i].value)
    ELSE TRUE

\* the call of the walker named returned, and kept every null of its data
KeepsNulls(walker, form) ==
    (scalarsPc = walker /\ Conforms(selection, data, form))
        => output.threw = "" /\ NullsKept(data, output.value)

\* C25: in marshalSelection and unmarshalSelection, with both functions
\* configured on every custom scalar and data that conforms to the selection,
\* a null or undefined value at any position of the data (the data itself, an
\* array element, the value of an object field, also one of a configured
\* custom scalar) is unchanged in the output, and no conversion function is
\* applied to it (so none raises on it).
C25_NullsAppearUnchanged ==
    InverseFunctions
        => KeepsNulls("marshalSelection", "date") /\ KeepsNulls("unmarshalSelection", "number")

\* ---------------------------------------------------------------------------
\* the three fragments of a registered list

\* the insert, toggle and remove fragments of the k-th registered list, as
\* they stand in the generated document
InsertFragment(k) == documents[Len(documents)].document[3 * k - 2]
ToggleFragment(k) == documents[Len(documents)].document[3 * k - 1]
RemoveFragment(k) == documents[Len(documents)].document[3 * k]

IdField(node) == node.kind = "Field" /\ node.name = "id"
SelectsId(selections) == \E i \in DOMAIN selections : IdField(selections[i])

\* the fragment named `name` is on `type` and selects `selections`
IsFragment(d, name, type, selections) ==
    /\ d.kind = "FragmentDefinition" /\ d.name = name
    /\ d.typeCondition = type
    /\ d.selections = selections

FragmentsOfList(k) ==
    /\ IsFragment(InsertFragment(k), listInsertFragment(lists[k].name), lists[k].type,
                  IF SelectsId(lists[k].selection) THEN lists[k].selection
                  ELSE lists[k].selection \o << Leaf("id") >>)
    /\ IsFragment(ToggleFragment(k), listToggleFragment(lists[k].name), lists[k].type,
                  InsertFragment(k).selections \o << Leaf("id") >>)
    /\ IsFragment(RemoveFragment(k), listRemoveFragment(lists[k].name), lists[k].type,
                  << Leaf("id") >>)

\* C26: for every registered list, the three synthesized fragments have the
\* list's target type as type condition; the insert fragment selects the
\* registered selection, with an id field appended if and only if that
\* selection has no top-level id field; the toggle fragment selects the
\* insert selection and one further id field; the remove fragment selects
\* only id.
C26_FragmentsOfEveryList ==
    (pc = "listed" /\ lists # <<>>)
        => /\ Len(documents[Len(documents)].document) >= 3 * Len(lists)
           /\ \A k \in DOMAIN lists : FragmentsOfList(k)

\* a connection list without an id and a plain list that selects the id
C26_Witness ==
    /\ pc = "listed"
    /\ Len(lists) = 2
    /\ lists[1].type = "User" /\ lists[1].selection = << Leaf("firstName") >>
    /\ inputDocuments[1].document[1].selections[1].selections = ConnectionSelection
    /\ InsertFragment(1).selections = << Leaf("firstName"), Leaf("id") >>
    /\ lists[2].selection = IdSelection
    /\ InsertFragment(2).selections = IdSelection
    /\ ToggleFragment(2).selections = << Leaf("id"), Leaf("firstName"), Leaf("id") >>
    /\ RemoveFragment(2).selections = << Leaf("id") >>

\* ---------------------------------------------------------------------------
\* the page size of the refetch descriptor

\* the documents that carry a refetch descriptor
WithRefetch == { i \in DOMAIN documents : documents[i].refetch.present }

\* C27: every refetch descriptor the pagination transform records has a
\* pageSize that is a number, on every paginated document, also when the
\* page-size argument (first, last or limit) is passed as a variable or is not
\* passed at the call site.
C27_PageSizeIsANumber ==
    pc \in {"paginated", "listed"}
        => \A i \in WithRefetch : documents[i].refetch.pageSize.k = "number"

\* ---------------------------------------------------------------------------
\* the hoisted variables and the arguments of the paginated field

\* the variables paginate added to the query: the definitions it has now and
\* did not have when it was collected
HoistedNames ==
    DefinedNames(DefinedAfter) \ DefinedNames(DefinedBefore)

\* the variables the arguments of the paginated field refer to
ReferencedNames ==
    { TaggedOutput(1).arguments[k].value :
        k \in { n \in DOMAIN TaggedOutput(1).arguments :
                  TaggedOutput(1).arguments[n].kind = "Variable" } }

RewroteAQuery ==
    /\ pc = "paginated"
    /\ InputDefinition(1).kind = "OperationDefinition"
    /\ IsPaginated(TaggedInput(1))

\* C28: after paginate rewrites a paginated query, every pagination variable
\* it hoisted onto the query (one per enabled flag) is referenced by an
\* argument of the paginated field, for every combination of declared and
\* call-site arguments.
C28_HoistedVariablesAreReferenced ==
    RewroteAQuery
        => /\ HoistedNames = { name \in FlagSet : docFlags[1][name].enabled }
           /\ HoistedNames \subseteq ReferencedNames

\* ---------------------------------------------------------------------------
\* paginate aborting on a tagged field outside a query

PaginateAborted == pc = "failed" /\ thrown = NotAQueryError

\* C29: when paginate aborts because a pagination-tagged field lies in an
\* operation that is not a query, the document list is as long as before the
\* call: no refetch query is appended, not even for a paginated fragment that
\* precedes the offending document.
C29_AbortAppendsNothing ==
    PaginateAborted
        => /\ Len(documents) = Len(inputDocuments)
           /\ \A i \in DOMAIN documents :
                 /\ documents[i].name = inputDocuments[i].name
                 /\ documents[i].kind = inputDocuments[i].kind

\* a paginated fragment, visited and rewritten, in front of a tagged mutation
C29_Witness ==
    /\ PaginateAborted
    /\ Len(inputDocuments) = 2
    /\ IsPaginatedFragment(1)
    /\ documents[1].refetch.present
    /\ inputDocuments[2].kind = "HoudiniMutation"
    /\ IsPaginated(TaggedInput(2))
    /\ Len(documents) = 2

\* ---------------------------------------------------------------------------
\* addListFragments raising its error set

ListErrorsRaised == pc = "failed" /\ thrown = "errors"

\* the document list as paginate handed it to addListFragments
BeforeListing == paginate(inputDocuments).documents

\* C30: when the list transform raises its error set, the document list is
\* as long as before the call (no generated::lists document) and the schema
\* text is unchanged, also when other lists were registered successfully.
C30_ErrorsAppendNothing ==
    ListErrorsRaised
        => /\ errors # <<>>
           /\ Len(documents) = Len(BeforeListing)
           /\ GeneratedDocuments = {}
           /\ newSchema = <<>>

\* one list registered and one directive in error, in two documents
C30_Witness ==
    /\ ListErrorsRaised
    /\ Len(inputDocuments) = 2
    /\ Len(lists) = 1 /\ lists[1].hasSel
    /\ Len(errors) = 1
    /\ Len(documents) = 2
    /\ newSchema = <<>>
====
